---- MODULE Spec2Model ----
(***************************************************************************)
(* Trip tracking backend (NestJS): Firebase token authentication with      *)
(* sync-on-first-sight user provisioning, the REST trip endpoints and the  *)
(* socket.io gateway (join-trip, leave-trip, update-location).             *)
(*                                                                         *)
(* One action is one run of handler code between two awaits on I/O: the    *)
(* Node event loop runs such a stretch without interleaving, and the       *)
(* MongoDB operations (findOne, save, findByIdAndUpdate) are each applied  *)
(* atomically by the store.                                                *)
(***************************************************************************)
EXTENDS Integers, Sequences, FiniteSets, TLC

(***************************************************************************)
(* Bounds of the model.                                                    *)
(***************************************************************************)
MaxConns == 2
MaxReqs == 1
MaxTrips == 1
MaxInFlight == 2

Conns == 1..MaxConns
Reqs == 1..MaxReqs

VARIABLES
    driverUids,  \* UsersService.driverUids, read from DRIVER_UIDS at construction
    users,       \* the users collection: sequence of documents, _id = index
    trips,       \* the trips collection: sequence of documents, _id = index
    sock,        \* per connection: "idle", "connected" or "disconnected"
    hc,          \* per connection: position of handleConnection and its locals
    dataUser,    \* per connection: client.data.user (NoUser when unset)
    rooms,       \* socket.io adapter: room -> set of connections (none: no such room)
    inflight,    \* per connection: its handlers awaiting storage, in arrival order
    out,         \* what the last step sent: an ack or error, and a trip-update
    lastWrite,   \* per trip: the update request whose write the store applied last
    rest,        \* per REST request slot: position of the request and its locals
    client,      \* FirebaseTokenService.client: the JwksClient's key cache and loads
    caught,      \* a catch block that hands its error to handleWsException
    env          \* DRIVER_UIDS of the environment: a sequence of UIDs, "," and " "

storeVars == <<users, trips, lastWrite>>
connVars == <<sock, hc, dataUser>>
eventVars == <<rooms, inflight>>
vars == <<driverUids, users, trips, sock, hc, dataUser, rooms, inflight, out,
          lastWrite, rest, client, caught, env>>

(***************************************************************************)
(* Configuration.                                                          *)
(***************************************************************************)
\* FIREBASE_PROJECT_ID
ProjectId == "trips-tracker"

\* issuer = `https://securetoken.google.com/${projectId}`
IssuerOf(projectId) == <<"https://securetoken.google.com/", projectId>>

\* The key ids of the provider's published key set (JWKS endpoint).
JwksKids == {"k1"}

\* No error has been caught.
NoCatch == [pc |-> "idle"]

\* new JwksClient({jwksUri}): nothing cached, no request of the key set
\* under way, no getSigningKey call settled.
NewJwksClient == [cache |-> {}, loading |-> {}, settled |-> {}]

\* The value of DRIVER_UIDS the server was started with.
DriverUidsEnv == {"uidD"}

(***************************************************************************)
(* Tokens. A token is the record of what jwt.decode / jwt.verify read      *)
(* from it; raw = "" is the empty string (falsy in the handshake).         *)
(***************************************************************************)
Token(sub, email) ==
    [raw |-> "jwt", wellFormed |-> TRUE, kid |-> "k1", alg |-> "RS256",
     sigOk |-> TRUE, expired |-> FALSE, iss |-> IssuerOf(ProjectId),
     aud |-> ProjectId, sub |-> sub, user_id |-> sub, email |-> email]

NoToken ==
    [raw |-> "", wellFormed |-> FALSE, kid |-> "", alg |-> "",
     sigOk |-> FALSE, expired |-> FALSE, iss |-> <<"", "">>,
     aud |-> "", sub |-> "", user_id |-> "", email |-> ""]

DriverToken == Token("uidD", "d@x")
PassengerToken == Token("uidP", "p@x")
BadSignatureToken == [PassengerToken EXCEPT !.sigOk = FALSE]

Tokens == {DriverToken, PassengerToken, BadSignatureToken, NoToken}

\* The passenger's token after the account's email was changed.
PassengerTokenNewEmail == Token("uidP", "p2@x")

\* A token with one of its fields corrupted: not decodable, without kid,
\* with a kid outside the key set, another algorithm, a signature that
\* does not verify, expired, another issuer, another audience, without
\* the sub claim (user_id left in place), without the email claim.
Corruptions(token) ==
    {[token EXCEPT !.wellFormed = FALSE],
     [token EXCEPT !.kid = ""],
     [token EXCEPT !.kid = "k9"],
     [token EXCEPT !.alg = "HS256"],
     [token EXCEPT !.sigOk = FALSE],
     [token EXCEPT !.expired = TRUE],
     [token EXCEPT !.iss = IssuerOf("other-project")],
     [token EXCEPT !.aud = "other-project"],
     [token EXCEPT !.sub = ""],
     [token EXCEPT !.email = ""]}

\* The tokens of the verification scenario: the driver's and the
\* passenger's, and every corruption of the passenger's.
TokenCases == {DriverToken, PassengerToken} \cup Corruptions(PassengerToken)

Falsy(token) == token.raw = ""

\* A verification that does not check the audience.
verifyIdTokenAnyAudience(idToken) ==
    IF ~(idToken.wellFormed /\ idToken.kid # "")
    THEN [ok |-> FALSE, error |-> "Invalid token format",
          firebaseUid |-> "", email |-> ""]
    ELSE IF ~(/\ idToken.kid \in JwksKids /\ idToken.alg = "RS256"
              /\ idToken.sigOk /\ ~idToken.expired
              /\ idToken.iss = IssuerOf(ProjectId)
              /\ idToken.sub # "" /\ idToken.email # "")
    THEN [ok |-> FALSE, error |-> "Invalid token",
          firebaseUid |-> "", email |-> ""]
    ELSE [ok |-> TRUE, error |-> "",
          firebaseUid |-> idToken.sub, email |-> idToken.email]

\* A verification that decodes the token and reads its claims only.
verifyIdTokenDecodeOnly(idToken) ==
    IF idToken.wellFormed /\ idToken.sub # "" /\ idToken.email # ""
    THEN [ok |-> TRUE, error |-> "",
          firebaseUid |-> idToken.sub, email |-> idToken.email]
    ELSE [ok |-> FALSE, error |-> "Invalid token",
          firebaseUid |-> "", email |-> ""]

\* FirebaseTokenService.verifyIdToken: the verified claims or a failure.
verifyIdToken(idToken) ==
    LET issuer == IssuerOf(ProjectId)
        decodedOk == idToken.wellFormed /\ idToken.kid # ""
        keyOk == idToken.kid \in JwksKids
        verifyOk == /\ idToken.alg = "RS256"
                    /\ idToken.sigOk
                    /\ ~idToken.expired
                    /\ idToken.iss = issuer
                    /\ idToken.aud = ProjectId
        claimsOk == idToken.sub # "" /\ idToken.email # ""
    IN  IF ~decodedOk
        THEN [ok |-> FALSE, error |-> "Invalid token format",
              firebaseUid |-> "", email |-> ""]
        ELSE IF ~(keyOk /\ verifyOk /\ claimsOk)
        THEN [ok |-> FALSE, error |-> "Invalid token",
              firebaseUid |-> "", email |-> ""]
        ELSE [ok |-> TRUE, error |-> "",
              firebaseUid |-> idToken.sub, email |-> idToken.email]

(***************************************************************************)
(* Users: schema, repository and service.                                  *)
(***************************************************************************)
NoUser == [_id |-> 0, firebaseUid |-> "", email |-> "", roles |-> {}]

\* DRIVER_UIDS is not set.
Unset == <<"<unset>">>

\* driverUidsEnv.split(','): the pieces between the commas, in order.
RECURSIVE split(_)
split(str) ==
    IF \A k \in 1..Len(str) : str[k] # ","
    THEN <<str>>
    ELSE LET k == CHOOSE j \in 1..Len(str) :
                      str[j] = "," /\ \A h \in 1..(j - 1) : str[h] # ","
         IN  <<SubSeq(str, 1, k - 1)>> \o split(SubSeq(str, k + 1, Len(str)))

\* uid.trim(): without the blanks at either end.
RECURSIVE trim(_)
trim(uid) ==
    IF uid # <<>> /\ Head(uid) = " " THEN trim(Tail(uid))
    ELSE IF uid # <<>> /\ uid[Len(uid)] = " "
    THEN trim(SubSeq(uid, 1, Len(uid) - 1))
    ELSE uid

\* The string of a sequence of pieces.
RECURSIVE join(_)
join(uid) == IF uid = <<>> THEN "" ELSE Head(uid) \o join(Tail(uid))

\* UsersService.constructor: this.driverUids for DRIVER_UIDS = value,
\* the entries whose trim() is not empty, as they stand.
UsersService(value) ==
    LET driverUidsEnv == IF value = Unset THEN <<>> ELSE value
        entries == split(driverUidsEnv)
    IN  {join(entries[k]) : k \in {j \in 1..Len(entries) : trim(entries[j]) # <<>>}}

\* A role assignment that keeps "passenger" for drivers.
determineRolesBoth(firebaseUid) ==
    IF firebaseUid \in driverUids THEN {"driver", "passenger"} ELSE {"passenger"}

\* UsersService.determineRoles
determineRoles(firebaseUid) ==
    IF firebaseUid \in driverUids THEN {"driver"} ELSE {"passenger"}

\* UsersRepository.findByFirebaseUid: the _id of the first match, 0 for null.
findByFirebaseUid(firebaseUid) ==
    LET hits == {i \in 1..Len(users) : users[i].firebaseUid = firebaseUid}
    IN  IF hits = {} THEN 0 ELSE CHOOSE i \in hits : \A j \in hits : i <= j

\* A users collection without the unique index: no save fails.
DuplicateKeyNoIndex(firebaseUid) == FALSE

\* The unique index on firebaseUid: a save with a value that is already
\* stored fails with a duplicate-key error.
DuplicateKey(firebaseUid) ==
    \E i \in 1..Len(users) : users[i].firebaseUid = firebaseUid

\* UsersRepository.create: the collection after a successful save.
create(userData) == Append(users, userData)

\* A session whose roles are computed anew from the driver list.
SessionUserRecomputed(id) ==
    [_id |-> id, firebaseUid |-> users[id].firebaseUid,
     email |-> users[id].email,
     roles |-> IF users[id].firebaseUid \in driverUids
               THEN {"driver"} ELSE {"passenger"}]

\* The plain object a handler keeps of a stored user (client.data.user, req.user).
SessionUser(id) ==
    [_id |-> id, firebaseUid |-> users[id].firebaseUid,
     email |-> users[id].email, roles |-> users[id].roles]

(***************************************************************************)
(* What a step sends to clients.                                           *)
(***************************************************************************)
\* A trip document as sent in an ack or a trip-update (found = FALSE: null).
NoDoc == [found |-> FALSE, _id |-> 0, status |-> "", currentLocation |-> ""]

\* No room: the ack of the step names none.
NoRoom == <<>>

\* out.conn got the ack (error = "") of its event, or for the exception
\* out.error of its handler an 'exception' event with out.message, unless
\* its socket was closed (acked = FALSE): the ack is out.doc for
\* update-location and {ok: true, room: out.room} for join-trip and
\* leave-trip; the sockets in out.to got a trip-update carrying out.doc.
NoOut ==
    [conn |-> 0, event |-> "", error |-> "", message |-> "", acked |-> FALSE,
     doc |-> NoDoc, room |-> NoRoom, to |-> {}]

\* A step that sends nothing.
Quiet == out' = NoOut

(***************************************************************************)
(* Handshake of a socket.io connection.                                    *)
(***************************************************************************)
NoHeader == [scheme |-> "", token |-> NoToken]

Handshakes ==
    {[auth |-> t, authorization |-> NoHeader] : t \in Tokens}
    \cup {[auth |-> NoToken, authorization |-> [scheme |-> s, token |-> DriverToken]] :
            s \in {"Bearer ", "Basic "}}

\* An extraction that prefers the Authorization header to auth.token.
ExtractTokenHeaderFirst(handshake) ==
    IF handshake.authorization.scheme = "Bearer "
    THEN handshake.authorization.token
    ELSE handshake.auth

\* handleConnection, step 1: auth.token, else the Bearer part of the header.
ExtractToken(handshake) ==
    IF ~Falsy(handshake.auth) THEN handshake.auth
    ELSE IF handshake.authorization.scheme = "Bearer "
         THEN handshake.authorization.token
         ELSE NoToken

HcIdle == [pc |-> "idle", token |-> NoToken, firebaseUid |-> "", email |-> ""]

\* client.disconnect(true), and a disconnect by the client: the socket
\* closes and socket.io removes it from every room.
LeaveAll(c) == [room \in DOMAIN rooms |-> rooms[room] \ {c}]

\* handleConnection up to its first await.
handleConnection(c, handshake) ==
    /\ sock[c] = "idle"
    /\ LET token == ExtractToken(handshake)
       IN  IF Falsy(token)
           THEN /\ sock' = [sock EXCEPT ![c] = "disconnected"]
                /\ hc' = [hc EXCEPT ![c] = [HcIdle EXCEPT !.pc = "noToken"]]
           ELSE /\ sock' = [sock EXCEPT ![c] = "connected"]
                /\ hc' = [hc EXCEPT ![c] = [HcIdle EXCEPT !.pc = "verify",
                                                          !.token = token]]
    /\ UNCHANGED <<driverUids, env, client, caught, storeVars, dataUser, eventVars, rest>>
    /\ Quiet

\* The catch block of handleConnection.
HcReject(c, why) ==
    /\ sock' = [sock EXCEPT ![c] = "disconnected"]
    /\ hc' = [hc EXCEPT ![c].pc = why]
    /\ rooms' = LeaveAll(c)

\* handleConnection resumes after verifyIdToken and calls findOrCreateUser.
handleConnectionVerified(c) ==
    /\ hc[c].pc = "verify"
    /\ LET r == verifyIdToken(hc[c].token)
       IN  IF r.ok
           THEN /\ hc' = [hc EXCEPT ![c].pc = "find",
                                     ![c].firebaseUid = r.firebaseUid,
                                     ![c].email = r.email]
                /\ UNCHANGED <<sock, rooms>>
           ELSE HcReject(c, "badToken")
    /\ UNCHANGED <<driverUids, env, client, caught, storeVars, dataUser, inflight, rest>>
    /\ Quiet

\* findOrCreate resumes after findByFirebaseUid.
handleConnectionFound(c) ==
    /\ hc[c].pc = "find"
    /\ LET user == findByFirebaseUid(hc[c].firebaseUid)
       IN  IF user # 0
           THEN /\ dataUser' = [dataUser EXCEPT ![c] = SessionUser(user)]
                /\ hc' = [hc EXCEPT ![c].pc = "done"]
           ELSE /\ hc' = [hc EXCEPT ![c].pc = "create"]
                /\ UNCHANGED dataUser
    /\ UNCHANGED <<driverUids, env, client, caught, storeVars, sock, eventVars, rest>>
    /\ Quiet

\* findOrCreate resumes after create; handleConnection stores the session.
handleConnectionCreated(c) ==
    /\ hc[c].pc = "create"
    /\ IF DuplicateKey(hc[c].firebaseUid)
       THEN /\ HcReject(c, "syncFailed")
            /\ UNCHANGED <<users, dataUser>>
       ELSE /\ users' = create([firebaseUid |-> hc[c].firebaseUid,
                                email |-> hc[c].email,
                                roles |-> determineRoles(hc[c].firebaseUid)])
            /\ dataUser' = [dataUser EXCEPT ![c] =
                   [_id |-> Len(users) + 1, firebaseUid |-> hc[c].firebaseUid,
                    email |-> hc[c].email,
                    roles |-> determineRoles(hc[c].firebaseUid)]]
            /\ hc' = [hc EXCEPT ![c].pc = "done"]
            /\ UNCHANGED <<sock, rooms>>
    /\ UNCHANGED <<driverUids, env, client, caught, trips, lastWrite, inflight, rest>>
    /\ Quiet

\* The request of the key set gets no answer: the JwksClient is built
\* without a timeout option, so its request is abandoned after the
\* library's default (30 s), getSigningKey rejects, and verifyIdToken's
\* catch turns the rejection into 'Invalid token'.
getSigningKeyTimesOut(c) ==
    /\ hc[c].pc = "verify"
    /\ hc[c].token.wellFormed /\ hc[c].token.kid # ""
    /\ HcReject(c, "badToken")
    /\ UNCHANGED <<driverUids, env, client, caught, storeVars, dataUser, inflight, rest>>
    /\ Quiet

\* verifyIdToken gets as far as getSigningKey: the token decodes and its
\* header names a kid.
Decodes(token) == token.wellFormed /\ token.kid # ""

\* c's getSigningKey call is queued on a request of the key set.
Queued(c) == \E load \in client.loading : c \in load.queue

\* verifyIdToken calls this.client.getSigningKey(kid). The client is built
\* with the defaults (cache on, no rate limit), so the call goes through
\* the key cache: a cached kid is answered at once; a miss joins the
\* request under way for that kid while that request still takes callers
\* (open); any other miss issues a request of the key set of its own.
getSigningKey(c) ==
    /\ hc[c].pc = "verify"
    /\ Decodes(hc[c].token)
    /\ c \notin client.settled /\ ~Queued(c)
    /\ LET kid == hc[c].token.kid
           open == {load \in client.loading : load.kid = kid /\ load.open}
       IN  IF kid \in client.cache
           THEN client' = [client EXCEPT !.settled = @ \cup {c}]
           ELSE IF open # {}
           THEN client' = [client EXCEPT !.loading =
                    {IF load \in open
                     THEN [load EXCEPT !.queue = @ \cup {c}] ELSE load :
                         load \in client.loading}]
           ELSE client' = [client EXCEPT !.loading =
                    @ \cup {[kid |-> kid, queue |-> {c}, open |-> TRUE]}]
    /\ UNCHANGED <<driverUids, env, caught, storeVars, connVars, eventVars, rest>>
    /\ Quiet

\* A request of the key set has been under way for longer than the
\* cache's queueing time (1 s by default, the request itself may take up
\* to 30 s): it takes no more callers.
queueMaxAge(load) ==
    /\ load \in client.loading
    /\ load.open
    /\ client' = [client EXCEPT !.loading =
           (@ \ {load}) \cup {[load EXCEPT !.open = FALSE]}]
    /\ UNCHANGED <<driverUids, env, caught, storeVars, connVars, eventVars, rest>>
    /\ Quiet

\* The provider answers a request of the key set: the key of the kid is
\* cached if the set has it, the entry of the kid's request is dropped
\* (whichever request put it there), and the callers queued on this
\* request are answered.
jwksResponds(load) ==
    /\ load \in client.loading
    /\ client' = [cache |-> client.cache \cup ({load.kid} \cap JwksKids),
                  loading |-> {IF other.kid = load.kid
                               THEN [other EXCEPT !.open = FALSE] ELSE other :
                                   other \in client.loading \ {load}},
                  settled |-> client.settled \cup load.queue]
    /\ UNCHANGED <<driverUids, env, caught, storeVars, connVars, eventVars, rest>>
    /\ Quiet

\* The client closes the connection.
Disconnect(c) ==
    /\ sock[c] = "connected"
    /\ sock' = [sock EXCEPT ![c] = "disconnected"]
    /\ rooms' = LeaveAll(c)
    /\ UNCHANGED <<driverUids, env, client, caught, storeVars, hc, dataUser, inflight, rest>>
    /\ Quiet

(***************************************************************************)
(* Trips: schema, DTOs, repository and service.                            *)
(***************************************************************************)
TripStatus == {"REQUESTED", "ACCEPTED", "IN_PROGRESS", "COMPLETED"}

\* Trip ids as clients send them: 0 is the empty string, -1 a string that is
\* no ObjectId, n >= 1 the ObjectId of the n-th trip the store creates
\* (MaxTrips + 1 is well-formed, and stored only where one more trip than
\* MaxTrips has been created).
TripIds == (-1)..(MaxTrips + 1)

\* Types.ObjectId.isValid
ObjectIdIsValid(tripId) == tripId >= 1

\* Location strings of an update-location payload ("" is the empty string,
\* " " a string of blanks, " B " is "B" between blanks).
Locations == {"", " ", "A", "B", " B "}

\* String.prototype.trim, which the schema option trim: true applies to
\* a value before it is stored.
Trim(str) == IF str = " B " THEN "B" ELSE IF str = " " THEN "" ELSE str

\* The update-location payloads clients send: for each stored trip three
\* well-formed ones, no two with the same status or with the location of
\* the next, and one whose location has blanks around it; and one payload
\* for each way of being rejected.
UpdateLocationDtos ==
    {[tripId |-> t, location |-> p[1], status |-> p[2]] :
        t \in 1..MaxTrips,
        p \in {<<"A", "ACCEPTED">>, <<"B", "IN_PROGRESS">>, <<"A", "COMPLETED">>,
               <<" B ", "COMPLETED">>}}
    \cup {[tripId |-> t, location |-> "A", status |-> "ACCEPTED"] :
            t \in {-1, 0, MaxTrips + 1}}
    \cup {[tripId |-> 1, location |-> "", status |-> "ACCEPTED"],
          [tripId |-> 1, location |-> "A", status |-> "REQUESTED"]}

\* A trip document without currentLocation, a payload without location.
NoLocation == "<unset>"

Destinations == {"Av. Italia 1234"}

\* TripsRepository.createTrip: the document that save() stores.
createTrip(passengerId, destination) ==
    [passenger |-> passengerId, destination |-> Trim(destination),
     status |-> "REQUESTED", currentLocation |-> NoLocation]

\* A query for the active trips that matches every trip.
findActiveRequestedTripsAnyStatus == 1..Len(trips)

\* TripsRepository.findActiveRequestedTrips: the ids of the matching documents.
findActiveRequestedTrips ==
    {i \in 1..Len(trips) : trips[i].status = "REQUESTED"}

\* populate('passenger', '_id firebaseUid email roles') on trip i: the
\* trip as a response carries it, its passenger replaced by the stored user.
populate(i) ==
    [_id |-> i, destination |-> trips[i].destination,
     status |-> trips[i].status, currentLocation |-> trips[i].currentLocation,
     passenger |-> [_id |-> trips[i].passenger,
                    firebaseUid |-> users[trips[i].passenger].firebaseUid,
                    email |-> users[trips[i].passenger].email,
                    roles |-> users[trips[i].passenger].roles]]

\* A lookup that finds a document under every ObjectId.
findByIdAlwaysFound(tripId) ==
    IF ~ObjectIdIsValid(tripId) THEN "CastError" ELSE "found"

\* TripsRepository.findById: "CastError" for a string that is no ObjectId.
findById(tripId) ==
    IF ~ObjectIdIsValid(tripId) THEN "CastError"
    ELSE IF tripId \in 1..Len(trips) THEN "found" ELSE "null"

\* An update that writes the location into destination as well.
updateTripAndDestination(tripId, updates) ==
    [trips EXCEPT ![tripId] =
        [@ EXCEPT !.currentLocation = Trim(updates.currentLocation),
                  !.destination = Trim(updates.currentLocation),
                  !.status = updates.status]]

\* An update that writes the status and leaves currentLocation to a
\* second store operation.
updateTripStatusOnly(tripId, updates) ==
    [trips EXCEPT ![tripId] = [@ EXCEPT !.status = updates.status]]

\* TripsRepository.updateTripPopulated: findByIdAndUpdate applies both
\* fields of `updates`, cast by the schema, to the document in one store
\* operation.
updateTripPopulated(tripId, updates) ==
    [trips EXCEPT ![tripId] =
        [@ EXCEPT !.currentLocation = Trim(updates.currentLocation),
                  !.status = updates.status]]

\* A validation of UpdateLocationDto without @IsIn on status.
UpdateLocationDtoErrorsAnyStatus(dto) ==
    {property \in {"tripId", "location", "status"} :
        \/ property = "tripId" /\ dto.tripId = 0
        \/ property = "location" /\ dto.location \in {"", NoLocation}
        \/ property = "status" /\ dto.status \notin TripStatus}

\* class-validator on UpdateLocationDto: the properties with a failed
\* constraint (IsString and IsNotEmpty on tripId and on location, IsEnum
\* and IsIn on status).
UpdateLocationDtoErrors(dto) ==
    {property \in {"tripId", "location", "status"} :
        \/ property = "tripId" /\ dto.tripId = 0
        \/ property = "location" /\ dto.location \in {"", NoLocation}
        \/ property = "status"
           /\ ~(/\ dto.status \in TripStatus
                /\ dto.status \in {"ACCEPTED", "IN_PROGRESS", "COMPLETED"})}

\* ValidationPipe on UpdateLocationDto: no property fails.
ValidUpdateLocationDto(dto) == UpdateLocationDtoErrors(dto) = {}

\* class-validator on JoinTripDto.
ValidJoinTripDto(dto) == dto.tripId # 0

\* The position of a status in the declared order of TripStatus.
StatusRank(status) ==
    CASE status = "REQUESTED" -> 0
      [] status = "ACCEPTED" -> 1
      [] status = "IN_PROGRESS" -> 2
      [] status = "COMPLETED" -> 3

\* A service without the role check.
updateLocationChecksAnyRole(driverUser, tripId, location, status) ==
    IF ~ObjectIdIsValid(tripId) THEN "Invalid tripId format"
    ELSE IF status = "REQUESTED" THEN "Cannot set status back to REQUESTED"
    ELSE "ok"

\* A service that also refuses a target that is not ahead of the stored status.
updateLocationChecksForward(driverUser, tripId, location, status) ==
    IF "driver" \notin driverUser.roles THEN "Forbidden"
    ELSE IF ~ObjectIdIsValid(tripId) THEN "Invalid tripId format"
    ELSE IF status = "REQUESTED" THEN "Cannot set status back to REQUESTED"
    ELSE IF tripId \in 1..Len(trips)
            /\ StatusRank(status) <= StatusRank(trips[tripId].status)
    THEN "Invalid transition"
    ELSE "ok"

\* TripsService.updateLocation up to the store call: the exception it
\* throws, or "ok" when it goes on to updateTripPopulated.
updateLocationChecks(driverUser, tripId, location, status) ==
    IF "driver" \notin driverUser.roles THEN "Forbidden"
    ELSE IF ~ObjectIdIsValid(tripId) THEN "Invalid tripId format"
    ELSE IF status = "REQUESTED" THEN "Cannot set status back to REQUESTED"
    ELSE "ok"

(***************************************************************************)
(* REST requests: FirebaseAuthGuard (FirebaseStrategy.validate), RolesGuard *)
(* and the TripsController handlers.                                       *)
(***************************************************************************)
Endpoints == {"createTrip", "listActiveTrips"}

\* @Roles(...) of each endpoint.
RequiredRoles(endpoint) ==
    IF endpoint = "createTrip" THEN {"passenger"} ELSE {"driver"}

\* RolesGuard.canActivate: TRUE, or FALSE for ForbiddenException.
canActivate(requiredRoles, user) ==
    \/ requiredRoles = {}
    \/ /\ user # NoUser
       /\ \E role \in requiredRoles : role \in user.roles

RestIdle ==
    [pc |-> "idle", endpoint |-> "", destination |-> "", token |-> NoToken,
     firebaseUid |-> "", email |-> "", user |-> NoUser, code |-> 0, body |-> {}]

RestDone(r, code, body) ==
    rest' = [rest EXCEPT ![r].pc = "done", ![r].code = code, ![r].body = body]

\* The number of createTrip requests being served.
CreatesInFlight ==
    Cardinality({r \in Reqs : rest[r].endpoint = "createTrip"
                               /\ rest[r].pc \in {"find", "create", "save"}})

\* A request arrives: the strategy takes the bearer token and validate()
\* reads sub (or user_id) and email from its payload, then calls
\* findOrCreateUser.
Request(r, token, endpoint, destination) ==
    /\ rest[r].pc = "idle"
    /\ endpoint = "createTrip" => Len(trips) + CreatesInFlight < MaxTrips
    /\ LET firebaseUid == IF token.sub # "" THEN token.sub ELSE token.user_id
           email == token.email
       IN  IF Falsy(token) \/ ~token.wellFormed \/ firebaseUid = "" \/ email = ""
           THEN rest' = [rest EXCEPT ![r] =
                    [RestIdle EXCEPT !.pc = "done", !.endpoint = endpoint,
                                     !.destination = destination,
                                     !.token = token, !.code = 401]]
           ELSE rest' = [rest EXCEPT ![r] =
                    [RestIdle EXCEPT !.pc = "find", !.endpoint = endpoint,
                                     !.destination = destination,
                                     !.token = token,
                                     !.firebaseUid = firebaseUid, !.email = email]]
    /\ UNCHANGED <<driverUids, env, client, caught, storeVars, connVars, eventVars>>
    /\ Quiet

\* After the guards: the controller handler up to its store call.
RestHandler(r, user) ==
    IF ~canActivate(RequiredRoles(rest[r].endpoint), user)
    THEN rest' = [rest EXCEPT ![r].pc = "done", ![r].user = user, ![r].code = 403]
    ELSE IF rest[r].endpoint = "createTrip"
    THEN rest' = [rest EXCEPT ![r].pc = "save", ![r].user = user]
    ELSE rest' = [rest EXCEPT ![r].pc = "list", ![r].user = user]

\* findOrCreate resumes after findByFirebaseUid.
RequestFound(r) ==
    /\ rest[r].pc = "find"
    /\ LET user == findByFirebaseUid(rest[r].firebaseUid)
       IN  IF user # 0
           THEN RestHandler(r, SessionUser(user))
           ELSE rest' = [rest EXCEPT ![r].pc = "create"]
    /\ UNCHANGED <<driverUids, env, client, caught, storeVars, connVars, eventVars>>
    /\ Quiet

\* findOrCreate resumes after create; validate() returns the user or
\* turns the failure into UnauthorizedException.
RequestCreated(r) ==
    /\ rest[r].pc = "create"
    /\ IF DuplicateKey(rest[r].firebaseUid)
       THEN /\ RestDone(r, 401, {})
            /\ UNCHANGED users
       ELSE /\ users' = create([firebaseUid |-> rest[r].firebaseUid,
                                email |-> rest[r].email,
                                roles |-> determineRoles(rest[r].firebaseUid)])
            /\ RestHandler(r, [_id |-> Len(users) + 1,
                               firebaseUid |-> rest[r].firebaseUid,
                               email |-> rest[r].email,
                               roles |-> determineRoles(rest[r].firebaseUid)])
    /\ UNCHANGED <<driverUids, env, client, caught, trips, lastWrite, connVars, eventVars>>
    /\ Quiet

\* TripsController.createTrip resumes after save(): 201 with the new trip.
RequestSaved(r) ==
    /\ rest[r].pc = "save"
    /\ trips' = Append(trips, createTrip(rest[r].user._id, rest[r].destination))
    /\ lastWrite' = Append(lastWrite, [status |-> "REQUESTED", location |-> NoLocation])
    /\ RestDone(r, 201, {Len(trips) + 1})
    /\ UNCHANGED <<driverUids, env, client, caught, users, connVars, eventVars>>
    /\ Quiet

\* TripsController.listActiveTrips resumes after the query: 200 with the list.
RequestListed(r) ==
    /\ rest[r].pc = "list"
    /\ RestDone(r, 200, {populate(i) : i \in findActiveRequestedTrips})
    /\ UNCHANGED <<driverUids, env, client, caught, storeVars, connVars, eventVars>>
    /\ Quiet

\* The response has been sent; the slot serves the next request.
RequestClosed(r) ==
    /\ rest[r].pc = "done"
    /\ rest' = [rest EXCEPT ![r] = RestIdle]
    /\ UNCHANGED <<driverUids, env, client, caught, storeVars, connVars, eventVars>>
    /\ Quiet

(***************************************************************************)
(* The gateway's event handlers.                                          *)
(***************************************************************************)
\* getTripRoom: `trip:${tripId}`.
getTripRoom(tripId) == <<"trip:", tripId>>

\* The rooms clients can name.
Rooms == {getTripRoom(tripId) : tripId \in TripIds}

InFlightTotal ==
    Cardinality({ci \in Conns \X (1..MaxInFlight) : ci[2] <= Len(inflight[ci[1]])})

RemoveAt(seq, i) == SubSeq(seq, 1, i - 1) \o SubSeq(seq, i + 1, Len(seq))

\* The exceptions of the handlers that are no WsException: the
\* BadRequestException of the ValidationPipe, and the CastError and the
\* other errors of the store where the handler does not catch them.
NotWsException == {"Bad Request", "CastError", "MongoError"}

\* The exception filter of the gateway's handlers (none is declared, so
\* the BaseWsExceptionFilter): the message of the 'exception' event.
exceptionMessage(error) ==
    IF error \in NotWsException THEN "Internal server error" ELSE error

\* The catch block of handleUpdateLocation: a WsException and an
\* exception with a numeric status (the service's HttpExceptions) leave
\* it with their message, any other error as a WsException with a fixed
\* message.
handleUpdateLocationCatch(error) ==
    IF error \in {"CastError", "MongoError"}
    THEN "Internal server error processing location update"
    ELSE error

\* The handler of an event of c ends: the ack (error = "") or the error
\* goes to c unless its socket is closed; `to` get a trip-update with doc.
Reply(c, event, error, doc, room, to) ==
    out' = [conn |-> c, event |-> event, error |-> error,
            message |-> IF error = "" THEN "" ELSE exceptionMessage(error),
            acked |-> sock[c] = "connected", doc |-> doc, room |-> room,
            to |-> to]

\* The handler awaits the store.
Await(c, event, dto) ==
    /\ InFlightTotal < MaxInFlight
    /\ inflight' = [inflight EXCEPT ![c] =
           Append(@, [event |-> event, tripId |-> dto.tripId,
                      location |-> dto.location, status |-> dto.status,
                      pc |-> "await", res |-> "", doc |-> NoDoc])]
    /\ Quiet

\* A handler without the pipe and without the service's checks on the target.
updateLocationOutcomeAnyTarget(user, dto) ==
    IF user = NoUser THEN "Unauthorized"
    ELSE IF "driver" \notin user.roles THEN "Forbidden"
    ELSE IF ~ObjectIdIsValid(dto.tripId) THEN "Invalid tripId format"
    ELSE "await"

\* handleUpdateLocation up to its await, as an outcome: the error it ends
\* with (ValidationPipe, session check, TripsService.updateLocation up to
\* the store call), or "await".
updateLocationOutcome(user, dto) ==
    IF ~ValidUpdateLocationDto(dto) THEN "Bad Request"
    ELSE IF user = NoUser THEN "Unauthorized"
    ELSE IF updateLocationChecks(user, dto.tripId, dto.location, dto.status) # "ok"
    THEN updateLocationChecks(user, dto.tripId, dto.location, dto.status)
    ELSE "await"

\* An update-location event arrives.
handleUpdateLocation(c, dto) ==
    /\ sock[c] = "connected"
    /\ LET outcome == updateLocationOutcome(dataUser[c], dto)
       IN  IF outcome # "await"
           THEN /\ Reply(c, "update-location", outcome, NoDoc, NoRoom, {})
                /\ UNCHANGED inflight
           ELSE Await(c, "update-location", dto)
    /\ UNCHANGED <<driverUids, env, client, caught, storeVars, connVars, rooms, rest>>

\* The store applies findByIdAndUpdate(tripId, {currentLocation, status},
\* {new: true}) and answers with the updated document, or null.
storeUpdateTrip(c, i) ==
    /\ i \in 1..Len(inflight[c])
    /\ inflight[c][i].event = "update-location"
    /\ inflight[c][i].pc = "await"
    /\ LET t == inflight[c][i]
           updates == [currentLocation |-> t.location, status |-> t.status]
       IN  IF t.tripId \in 1..Len(trips)
           THEN /\ trips' = updateTripPopulated(t.tripId, updates)
                /\ lastWrite' = [lastWrite EXCEPT ![t.tripId] =
                       [status |-> t.status, location |-> t.location]]
                /\ inflight' = [inflight EXCEPT ![c][i].pc = "resume",
                       ![c][i].res = "found",
                       ![c][i].doc = [found |-> TRUE, _id |-> t.tripId,
                                      status |-> trips'[t.tripId].status,
                                      currentLocation |-> trips'[t.tripId].currentLocation]]
           ELSE /\ inflight' = [inflight EXCEPT ![c][i].pc = "resume",
                                                ![c][i].res = "null"]
                /\ UNCHANGED <<trips, lastWrite>>
    /\ UNCHANGED <<driverUids, env, client, caught, users, connVars, rooms, rest>>
    /\ Quiet

\* The store operation of a pending handler fails (connection lost,
\* server selection timeout): the awaited promise is rejected.
storeFails(c, i) ==
    /\ i \in 1..Len(inflight[c])
    /\ inflight[c][i].pc = "await"
    /\ inflight' = [inflight EXCEPT ![c][i].pc = "resume",
                                    ![c][i].res = "MongoError"]
    /\ UNCHANGED <<driverUids, env, client, caught, storeVars, connVars, rooms, rest>>
    /\ Quiet

\* An emit to every connected socket (server.emit).
RecipientsAll(members) == {m \in Conns : sock[m] = "connected"}

\* An emit that reaches nobody.
RecipientsNone(members) == {}

\* server.to(room).emit(...): the connected sockets among the members.
Recipients(members) == {m \in members : sock[m] = "connected"}

\* handleUpdateLocation resumes with the store's answer.
resumeUpdateLocation(c, i) ==
    /\ i \in 1..Len(inflight[c])
    /\ inflight[c][i].event = "update-location"
    /\ inflight[c][i].pc = "resume"
    /\ LET t == inflight[c][i]
           room == getTripRoom(t.tripId)
       IN  IF t.res = "MongoError"
           THEN /\ Reply(c, "update-location",
                         handleUpdateLocationCatch(t.res), NoDoc, NoRoom, {})
                /\ UNCHANGED rooms
           ELSE IF ~t.doc.found
           THEN /\ Reply(c, "update-location", "Not Found", NoDoc, NoRoom, {})
                /\ UNCHANGED rooms
           ELSE /\ rooms' = [rooms EXCEPT ![room] = @ \cup {c}]
                /\ Reply(c, "update-location", "", t.doc, NoRoom,
                         Recipients(rooms'[room]))
    /\ inflight' = [inflight EXCEPT ![c] = RemoveAt(@, i)]
    /\ UNCHANGED <<driverUids, env, client, caught, storeVars, connVars, rest>>

\* A join-trip open to passengers only.
joinTripOutcomePassengersOnly(user, dto) ==
    IF ~ValidJoinTripDto(dto) THEN "Bad Request"
    ELSE IF user = NoUser THEN "Unauthorized"
    ELSE IF "passenger" \notin user.roles THEN "Forbidden"
    ELSE "await"

\* handleJoinTrip up to its await, as an outcome.
joinTripOutcome(user, dto) ==
    IF ~ValidJoinTripDto(dto) THEN "Bad Request"
    ELSE IF user = NoUser THEN "Unauthorized"
    ELSE "await"

\* A join-trip event arrives.
handleJoinTrip(c, tripId) ==
    /\ sock[c] = "connected"
    /\ LET dto == [tripId |-> tripId, location |-> "", status |-> ""]
           outcome == joinTripOutcome(dataUser[c], dto)
       IN  IF outcome # "await"
           THEN /\ Reply(c, "join-trip", outcome, NoDoc, NoRoom, {})
                /\ UNCHANGED inflight
           ELSE Await(c, "join-trip", dto)
    /\ UNCHANGED <<driverUids, env, client, caught, storeVars, connVars, rooms, rest>>

\* The store answers tripsService.getTrip.
storeFindTrip(c, i) ==
    /\ i \in 1..Len(inflight[c])
    /\ inflight[c][i].event = "join-trip"
    /\ inflight[c][i].pc = "await"
    /\ inflight' = [inflight EXCEPT ![c][i].pc = "resume",
                                    ![c][i].res = findById(inflight[c][i].tripId)]
    /\ UNCHANGED <<driverUids, env, client, caught, storeVars, connVars, rooms, rest>>
    /\ Quiet

\* handleJoinTrip resumes with the store's answer.
resumeJoinTrip(c, i) ==
    /\ i \in 1..Len(inflight[c])
    /\ inflight[c][i].event = "join-trip"
    /\ inflight[c][i].pc = "resume"
    /\ LET t == inflight[c][i]
           room == getTripRoom(t.tripId)
       IN  IF t.res \in {"CastError", "MongoError"}
           THEN /\ Reply(c, "join-trip", t.res, NoDoc, NoRoom, {})
                /\ UNCHANGED rooms
           ELSE IF t.res = "null"
           THEN /\ Reply(c, "join-trip", "Trip not found", NoDoc, NoRoom, {})
                /\ UNCHANGED rooms
           ELSE /\ rooms' = [rooms EXCEPT ![room] = @ \cup {c}]
                /\ Reply(c, "join-trip", "", NoDoc, room, {})
    /\ inflight' = [inflight EXCEPT ![c] = RemoveAt(@, i)]
    /\ UNCHANGED <<driverUids, env, client, caught, storeVars, connVars, rest>>

\* A leave that takes the socket out of every room.
leaveEveryRoom(c, room) == LeaveAll(c)

\* client.leave(room): the rooms afterwards.
leave(c, room) == [rooms EXCEPT ![room] = @ \ {c}]

\* handleLeaveTrip: no pipe, no session check, no await.
handleLeaveTrip(c, tripId) ==
    /\ sock[c] = "connected"
    /\ LET room == getTripRoom(tripId)
       IN  rooms' = leave(c, room)
    /\ Reply(c, "leave-trip", "", NoDoc, getTripRoom(tripId), {})
    /\ UNCHANGED <<driverUids, env, client, caught, storeVars, connVars, inflight, rest>>

(***************************************************************************)
(* common/ws/ws-error.util.ts                                              *)
(***************************************************************************)
\* The errors a catch block can hold. class: "WsException",
\* "HttpException", "Error" (any other object) or "null" (null or
\* undefined was thrown); status: the type and the value of the status
\* property (value 0 for a status that is no number); message: "" for an
\* empty or absent message.
Messages ==
    {"", "Unauthorized", "Forbidden", "Not Found", "Trip not found", "boom"}

CaughtErrors ==
    {[class |-> "WsException", statusType |-> "undefined", status |-> 0,
      message |-> m] : m \in Messages}
    \cup {[class |-> "HttpException", statusType |-> "number", status |-> st,
           message |-> m] : st \in {400, 403, 404}, m \in Messages}
    \cup {[class |-> "Error", statusType |-> "number", status |-> st,
           message |-> m] : st \in {0, 404, 500}, m \in Messages}
    \cup {[class |-> "Error", statusType |-> ty, status |-> 0,
           message |-> m] : ty \in {"undefined", "string"}, m \in Messages}
    \cup {[class |-> "null", statusType |-> "undefined", status |-> 0,
           message |-> ""]}

\* error?.status as a condition: a number other than 0, or a string
\* (the status strings of the scenario are not empty).
Truthy(error) ==
    \/ error.statusType = "number" /\ error.status # 0
    \/ error.statusType = "string"

\* What is thrown: a WsException with a message; same: it is the very
\* object that was caught.
WsException(message, same) ==
    [class |-> "WsException", message |-> message, same |-> same]

\* A conversion that knows HttpException by instanceof only.
handleWsExceptionInstanceOnly(error) ==
    IF error.class = "WsException" THEN WsException(error.message, TRUE)
    ELSE IF error.class = "HttpException" THEN WsException(error.message, FALSE)
    ELSE WsException("Internal server error", FALSE)

\* handleWsException(error): never.
handleWsException(error) ==
    IF error.class = "WsException" THEN WsException(error.message, TRUE)
    ELSE IF error.class = "HttpException" THEN WsException(error.message, FALSE)
    ELSE IF Truthy(error) /\ error.statusType = "number" /\ error.message # ""
    THEN WsException(error.message, FALSE)
    ELSE WsException("Internal server error", FALSE)

\* A catch block of the gateway holds `error` (the first one, or the next
\* one after an exception has left its handler).
Catch(error) ==
    /\ caught.pc \in {"idle", "thrown"}
    /\ caught' = [pc |-> "caught", error |-> error]
    /\ UNCHANGED <<driverUids, env, client, storeVars, connVars, eventVars, rest>>
    /\ Quiet

\* The catch block calls handleWsException(error).
callHandleWsException ==
    /\ caught.pc = "caught"
    /\ caught' = [pc |-> "thrown", error |-> caught.error,
                  thrown |-> handleWsException(caught.error)]
    /\ UNCHANGED <<driverUids, env, client, storeVars, connVars, eventVars, rest>>
    /\ Quiet

WsErrorNext ==
    \/ \E error \in CaughtErrors : Catch(error)
    \/ callHandleWsException

(***************************************************************************)
(* The system.                                                             *)
(***************************************************************************)
Init ==
    /\ driverUids = DriverUidsEnv
    /\ env = <<"uidD">>
    /\ client = NewJwksClient
    /\ caught = NoCatch
    /\ users = <<>>
    /\ trips = <<>>
    /\ lastWrite = <<>>
    /\ sock = [c \in Conns |-> "idle"]
    /\ hc = [c \in Conns |-> HcIdle]
    /\ dataUser = [c \in Conns |-> NoUser]
    /\ rooms = [room \in Rooms |-> {}]
    /\ inflight = [c \in Conns |-> <<>>]
    /\ out = NoOut
    /\ rest = [r \in Reqs |-> RestIdle]

AuthNext ==
    \/ \E c \in Conns, handshake \in Handshakes : handleConnection(c, handshake)
    \/ \E c \in Conns : handleConnectionVerified(c)
    \/ \E c \in Conns : handleConnectionFound(c)
    \/ \E c \in Conns : handleConnectionCreated(c)
    \/ \E c \in Conns : Disconnect(c)

RestNext ==
    \/ \E r \in Reqs, token \in Tokens, endpoint \in Endpoints, d \in Destinations :
          Request(r, token, endpoint, d)
    \/ \E r \in Reqs : RequestFound(r)
    \/ \E r \in Reqs : RequestCreated(r)
    \/ \E r \in Reqs : RequestSaved(r)
    \/ \E r \in Reqs : RequestListed(r)
    \/ \E r \in Reqs : RequestClosed(r)

EventNext ==
    \/ \E c \in Conns, dto \in UpdateLocationDtos : handleUpdateLocation(c, dto)
    \/ \E c \in Conns, i \in 1..MaxInFlight : storeUpdateTrip(c, i)
    \/ \E c \in Conns, i \in 1..MaxInFlight : resumeUpdateLocation(c, i)
    \/ \E c \in Conns, t \in TripIds : handleJoinTrip(c, t)
    \/ \E c \in Conns, i \in 1..MaxInFlight : storeFindTrip(c, i)
    \/ \E c \in Conns, i \in 1..MaxInFlight : resumeJoinTrip(c, i)
    \/ \E c \in Conns, t \in TripIds : handleLeaveTrip(c, t)

Next ==
    \/ AuthNext
    \/ RestNext
    \/ EventNext
    \/ \E c \in Conns, i \in 1..MaxInFlight : storeFails(c, i)

\* A state the system reaches by provisioning alone: the driver and a
\* passenger have authenticated once, the passenger has created MaxTrips
\* trips, and every connection has completed its handshake as one of them
\* (connection 1 as the driver).
ProvisionedUsers ==
    <<[firebaseUid |-> "uidD", email |-> "d@x", roles |-> determineRoles("uidD")],
      [firebaseUid |-> "uidP", email |-> "p@x", roles |-> determineRoles("uidP")]>>

TripsInit ==
    /\ driverUids = DriverUidsEnv
    /\ env = <<"uidD">>
    /\ client = NewJwksClient
    /\ caught = NoCatch
    /\ users = ProvisionedUsers
    /\ trips = [i \in 1..MaxTrips |-> createTrip(2, "Av. Italia 1234")]
    /\ lastWrite = [i \in 1..MaxTrips |->
                       [status |-> "REQUESTED", location |-> NoLocation]]
    /\ sock = [c \in Conns |-> "connected"]
    /\ dataUser \in {f \in [Conns -> {SessionUser(1), SessionUser(2)}] :
                         f[1] = SessionUser(1)}
    /\ hc = [c \in Conns |->
                [pc |-> "done",
                 token |-> Token(dataUser[c].firebaseUid, dataUser[c].email),
                 firebaseUid |-> dataUser[c].firebaseUid,
                 email |-> dataUser[c].email]]
    /\ rooms = [room \in Rooms |-> {}]
    /\ inflight = [c \in Conns |-> <<>>]
    /\ out = NoOut
    /\ rest = [r \in Reqs |-> RestIdle]

TripsNext == EventNext

\* As TripsInit with one more trip stored, so that two trips have rooms;
\* connection 1 is the driver's, the others are the passenger's.
RoomsInit ==
    /\ driverUids = DriverUidsEnv
    /\ env = <<"uidD">>
    /\ client = NewJwksClient
    /\ caught = NoCatch
    /\ users = ProvisionedUsers
    /\ trips = [i \in 1..(MaxTrips + 1) |-> createTrip(2, "Av. Italia 1234")]
    /\ lastWrite = [i \in 1..(MaxTrips + 1) |->
                       [status |-> "REQUESTED", location |-> NoLocation]]
    /\ sock = [c \in Conns |-> "connected"]
    /\ dataUser = [c \in Conns |-> IF c = 1 THEN SessionUser(1) ELSE SessionUser(2)]
    /\ hc = [c \in Conns |->
                [pc |-> "done",
                 token |-> Token(dataUser[c].firebaseUid, dataUser[c].email),
                 firebaseUid |-> dataUser[c].firebaseUid,
                 email |-> dataUser[c].email]]
    /\ rooms = [room \in Rooms |-> {}]
    /\ inflight = [c \in Conns |-> <<>>]
    /\ out = NoOut
    /\ rest = [r \in Reqs |-> RestIdle]

\* The values of DRIVER_UIDS the server is started with: the initial one,
\* and that one with the passenger's UID added.
DriverLists == {DriverUidsEnv, DriverUidsEnv \cup {"uidP"}}

\* The server is restarted with DRIVER_UIDS = list: UsersService is
\* constructed anew, every socket, room and pending handler is gone, the
\* collections stay.
Restart(list) ==
    /\ driverUids' = list
    /\ env' = IF "uidP" \in list THEN <<"uidD", ",", "uidP">> ELSE <<"uidD">>
    /\ client' = NewJwksClient
    /\ caught' = NoCatch
    /\ sock' = [c \in Conns |-> "idle"]
    /\ hc' = [c \in Conns |-> HcIdle]
    /\ dataUser' = [c \in Conns |-> NoUser]
    /\ rooms' = [room \in Rooms |-> {}]
    /\ inflight' = [c \in Conns |-> <<>>]
    /\ rest' = [r \in Reqs |-> RestIdle]
    /\ UNCHANGED storeVars
    /\ Quiet

\* The longest DRIVER_UIDS value of the scenario, in pieces.
MaxEnvLen == 4

\* The values of DRIVER_UIDS: unset, and every sequence of up to
\* MaxEnvLen pieces, each the driver's UID, the passenger's UID, a comma
\* or a blank.
EnvValues ==
    {Unset} \cup UNION {[1..n -> {"uidD", "uidP", ",", " "}] : n \in 0..MaxEnvLen}

\* The server is started with DRIVER_UIDS = value.
Bootstrap(value) ==
    /\ env' = value
    /\ driverUids' = UsersService(value)
    /\ client' = NewJwksClient
    /\ caught' = NoCatch
    /\ sock' = [c \in Conns |-> "idle"]
    /\ hc' = [c \in Conns |-> HcIdle]
    /\ dataUser' = [c \in Conns |-> NoUser]
    /\ rooms' = [room \in Rooms |-> {}]
    /\ inflight' = [c \in Conns |-> <<>>]
    /\ rest' = [r \in Reqs |-> RestIdle]
    /\ UNCHANGED storeVars
    /\ Quiet

EnvNext == \E value \in EnvValues : Bootstrap(value)

\* The passenger's authentications, by socket and by REST request, with
\* the old and the new email, and restarts.
RolesNext ==
    \/ \E c \in Conns, t \in {PassengerToken, PassengerTokenNewEmail} :
          handleConnection(c, [auth |-> t, authorization |-> NoHeader])
    \/ \E c \in Conns : handleConnectionVerified(c)
    \/ \E c \in Conns : handleConnectionFound(c)
    \/ \E c \in Conns : handleConnectionCreated(c)
    \/ \E r \in Reqs, t \in {PassengerToken, PassengerTokenNewEmail},
          endpoint \in Endpoints, d \in Destinations : Request(r, t, endpoint, d)
    \/ \E r \in Reqs : RequestFound(r)
    \/ \E r \in Reqs : RequestCreated(r)
    \/ \E r \in Reqs : RequestSaved(r)
    \/ \E r \in Reqs : RequestListed(r)
    \/ \E r \in Reqs : RequestClosed(r)
    \/ \E list \in DriverLists : Restart(list)

\* The events of the two-trip scenario: updates to ACCEPTED at "A" and
\* joins, each on either stored trip, and leaves of any room.
RoomsNext ==
    \/ \E c \in Conns, dto \in {d \in UpdateLocationDtos :
                                  /\ d.tripId >= 1 /\ d.location = "A"
                                  /\ d.status = "ACCEPTED"} :
          handleUpdateLocation(c, dto)
    \/ \E c \in Conns, i \in 1..MaxInFlight : storeUpdateTrip(c, i)
    \/ \E c \in Conns, i \in 1..MaxInFlight : resumeUpdateLocation(c, i)
    \/ \E c \in Conns, t \in 1..(MaxTrips + 1) : handleJoinTrip(c, t)
    \/ \E c \in Conns, i \in 1..MaxInFlight : storeFindTrip(c, i)
    \/ \E c \in Conns, i \in 1..MaxInFlight : resumeJoinTrip(c, i)
    \/ \E c \in Conns, t \in TripIds : handleLeaveTrip(c, t)

\* A state the system reaches by provisioning alone: the driver and a
\* passenger have authenticated once, no trip has been created yet,
\* connection 1 has completed its handshake as the driver and the others
\* were closed for carrying no token.
ListInit ==
    /\ driverUids = DriverUidsEnv
    /\ env = <<"uidD">>
    /\ client = NewJwksClient
    /\ caught = NoCatch
    /\ users = ProvisionedUsers
    /\ trips = <<>>
    /\ lastWrite = <<>>
    /\ sock = [c \in Conns |-> IF c = 1 THEN "connected" ELSE "disconnected"]
    /\ dataUser = [c \in Conns |-> IF c = 1 THEN SessionUser(1) ELSE NoUser]
    /\ hc = [c \in Conns |->
                IF c = 1 THEN [pc |-> "done", token |-> DriverToken,
                               firebaseUid |-> "uidD", email |-> "d@x"]
                ELSE [HcIdle EXCEPT !.pc = "noToken"]]
    /\ rooms = [room \in Rooms |-> {}]
    /\ inflight = [c \in Conns |-> <<>>]
    /\ out = NoOut
    /\ rest = [r \in Reqs |-> RestIdle]

\* The REST requests of the driver and the passenger, and the driver's
\* updates of the first trip to ACCEPTED and to COMPLETED.
ListNext ==
    \/ \E r \in Reqs, token \in {DriverToken, PassengerToken},
          endpoint \in Endpoints, d \in Destinations : Request(r, token, endpoint, d)
    \/ \E r \in Reqs : RequestFound(r)
    \/ \E r \in Reqs : RequestSaved(r)
    \/ \E r \in Reqs : RequestListed(r)
    \/ \E r \in Reqs : RequestClosed(r)
    \/ \E c \in Conns, dto \in {d \in UpdateLocationDtos :
                                  /\ d.tripId = 1 /\ d.location = "A"
                                  /\ d.status \in {"ACCEPTED", "COMPLETED"}} :
          handleUpdateLocation(c, dto)
    \/ \E c \in Conns, i \in 1..MaxInFlight : storeUpdateTrip(c, i)
    \/ \E c \in Conns, i \in 1..MaxInFlight : resumeUpdateLocation(c, i)

\* Updates of the first trip to ACCEPTED with each kind of location:
\* absent, empty, blanks only, plain, and padded with blanks.
LocationDtos ==
    {[tripId |-> 1, location |-> l, status |-> "ACCEPTED"] :
        l \in {NoLocation, "", " ", "A", " B "}}

LocationNext ==
    \/ \E c \in Conns, dto \in LocationDtos : handleUpdateLocation(c, dto)
    \/ \E c \in Conns, i \in 1..MaxInFlight : storeUpdateTrip(c, i)
    \/ \E c \in Conns, i \in 1..MaxInFlight : resumeUpdateLocation(c, i)

\* Updates that target REQUESTED, with every kind of tripId and with and
\* without a location, and the update of the first trip to ACCEPTED.
TargetDtos ==
    {[tripId |-> t, location |-> l, status |-> "REQUESTED"] :
        t \in TripIds, l \in {"A", ""}}
    \cup {[tripId |-> 1, location |-> "A", status |-> "ACCEPTED"]}

TargetNext ==
    \/ \E c \in Conns, dto \in TargetDtos : handleUpdateLocation(c, dto)
    \/ \E c \in Conns, i \in 1..MaxInFlight : storeUpdateTrip(c, i)
    \/ \E c \in Conns, i \in 1..MaxInFlight : resumeUpdateLocation(c, i)

\* One update-location payload for each way an update ends.
ErrorDtos ==
    {[tripId |-> t, location |-> "A", status |-> "ACCEPTED"] :
        t \in {-1, 0, 1, MaxTrips + 1}}
    \cup {[tripId |-> 1, location |-> "", status |-> "ACCEPTED"],
          [tripId |-> 1, location |-> "A", status |-> "REQUESTED"]}

\* Updates and joins with every way of failing, a failing store included.
ErrorsNext ==
    \/ \E c \in Conns, dto \in ErrorDtos : handleUpdateLocation(c, dto)
    \/ \E c \in Conns, i \in 1..MaxInFlight : storeUpdateTrip(c, i)
    \/ \E c \in Conns, i \in 1..MaxInFlight : resumeUpdateLocation(c, i)
    \/ \E c \in Conns, t \in TripIds : handleJoinTrip(c, t)
    \/ \E c \in Conns, i \in 1..MaxInFlight : storeFindTrip(c, i)
    \/ \E c \in Conns, i \in 1..MaxInFlight : resumeJoinTrip(c, i)
    \/ \E c \in Conns, i \in 1..MaxInFlight : storeFails(c, i)

\* As ListInit, the connections other than the driver's not yet opened.
FrameInit ==
    /\ driverUids = DriverUidsEnv
    /\ env = <<"uidD">>
    /\ client = NewJwksClient
    /\ caught = NoCatch
    /\ users = ProvisionedUsers
    /\ trips = <<>>
    /\ lastWrite = <<>>
    /\ sock = [c \in Conns |-> IF c = 1 THEN "connected" ELSE "idle"]
    /\ dataUser = [c \in Conns |-> IF c = 1 THEN SessionUser(1) ELSE NoUser]
    /\ hc = [c \in Conns |->
                IF c = 1 THEN [pc |-> "done", token |-> DriverToken,
                               firebaseUid |-> "uidD", email |-> "d@x"]
                ELSE HcIdle]
    /\ rooms = [room \in Rooms |-> {}]
    /\ inflight = [c \in Conns |-> <<>>]
    /\ out = NoOut
    /\ rest = [r \in Reqs |-> RestIdle]

\* Every operation on the first trip: its creation and the list over
\* REST, updates, joins and leaves, handshakes of the passenger, and
\* disconnects.
FrameNext ==
    \/ \E r \in Reqs, token \in {DriverToken, PassengerToken},
          endpoint \in Endpoints, d \in Destinations : Request(r, token, endpoint, d)
    \/ \E r \in Reqs : RequestFound(r)
    \/ \E r \in Reqs : RequestSaved(r)
    \/ \E r \in Reqs : RequestListed(r)
    \/ \E r \in Reqs : RequestClosed(r)
    \/ \E c \in Conns, dto \in {d \in UpdateLocationDtos :
                                  /\ d.tripId = 1
                                  /\ <<d.location, d.status>> \in
                                        {<<"A", "ACCEPTED">>,
                                         <<" B ", "COMPLETED">>}} :
          handleUpdateLocation(c, dto)
    \/ \E c \in Conns, i \in 1..MaxInFlight : storeUpdateTrip(c, i)
    \/ \E c \in Conns, i \in 1..MaxInFlight : resumeUpdateLocation(c, i)
    \/ \E c \in Conns : handleJoinTrip(c, 1)
    \/ \E c \in Conns, i \in 1..MaxInFlight : storeFindTrip(c, i)
    \/ \E c \in Conns, i \in 1..MaxInFlight : resumeJoinTrip(c, i)
    \/ \E c \in Conns : handleLeaveTrip(c, 1)
    \/ \E c \in Conns :
          handleConnection(c, [auth |-> PassengerToken, authorization |-> NoHeader])
    \/ \E c \in Conns : handleConnectionVerified(c)
    \/ \E c \in Conns : handleConnectionFound(c)
    \/ \E c \in Conns : Disconnect(c)

\* Authentication with every token of TokenCases, by handshake and by
\* REST request (GET /trips/active).
TokensNext ==
    \/ \E c \in Conns, t \in TokenCases :
          handleConnection(c, [auth |-> t, authorization |-> NoHeader])
    \/ \E c \in Conns : handleConnectionVerified(c)
    \/ \E c \in Conns : handleConnectionFound(c)
    \/ \E c \in Conns : handleConnectionCreated(c)
    \/ \E r \in Reqs, t \in TokenCases, d \in Destinations :
          Request(r, t, "listActiveTrips", d)
    \/ \E r \in Reqs : RequestFound(r)
    \/ \E r \in Reqs : RequestCreated(r)
    \/ \E r \in Reqs : RequestListed(r)
    \/ \E r \in Reqs : RequestClosed(r)

\* A state the system reaches by provisioning alone: a passenger has
\* authenticated once and created MaxTrips trips; connection 1 has not
\* connected yet, the others were closed for carrying no token.
ConnectInit ==
    /\ driverUids = DriverUidsEnv
    /\ env = <<"uidD">>
    /\ client = NewJwksClient
    /\ caught = NoCatch
    /\ users = <<[firebaseUid |-> "uidP", email |-> "p@x",
                  roles |-> determineRoles("uidP")]>>
    /\ trips = [i \in 1..MaxTrips |-> createTrip(1, "Av. Italia 1234")]
    /\ lastWrite = [i \in 1..MaxTrips |->
                       [status |-> "REQUESTED", location |-> NoLocation]]
    /\ sock = [c \in Conns |-> IF c = 1 THEN "idle" ELSE "disconnected"]
    /\ hc = [c \in Conns |->
                IF c = 1 THEN HcIdle ELSE [HcIdle EXCEPT !.pc = "noToken"]]
    /\ dataUser = [c \in Conns |-> NoUser]
    /\ rooms = [room \in Rooms |-> {}]
    /\ inflight = [c \in Conns |-> <<>>]
    /\ out = NoOut
    /\ rest = [r \in Reqs |-> RestIdle]

ConnectNext == AuthNext \/ EventNext

\* The token of a user the store does not know yet.
NewcomerToken == Token("uidN", "n@x")

\* As TripsInit, the connections other than the driver's not yet opened.
LiveInit ==
    /\ driverUids = DriverUidsEnv
    /\ env = <<"uidD">>
    /\ client = NewJwksClient
    /\ caught = NoCatch
    /\ users = ProvisionedUsers
    /\ trips = [i \in 1..MaxTrips |-> createTrip(2, "Av. Italia 1234")]
    /\ lastWrite = [i \in 1..MaxTrips |->
                       [status |-> "REQUESTED", location |-> NoLocation]]
    /\ sock = [c \in Conns |-> IF c = 1 THEN "connected" ELSE "idle"]
    /\ dataUser = [c \in Conns |-> IF c = 1 THEN SessionUser(1) ELSE NoUser]
    /\ hc = [c \in Conns |->
                IF c = 1 THEN [pc |-> "done", token |-> DriverToken,
                               firebaseUid |-> "uidD", email |-> "d@x"]
                ELSE HcIdle]
    /\ rooms = [room \in Rooms |-> {}]
    /\ inflight = [c \in Conns |-> <<>>]
    /\ out = NoOut
    /\ rest = [r \in Reqs |-> RestIdle]

\* Handshakes of a known passenger, of a newcomer and with a bad
\* signature, and updates and joins of the first trip, one event of a
\* connection at a time; the key set and the store answer, fail, or stay
\* silent.
LiveNext ==
    \/ \E c \in Conns, t \in {PassengerToken, NewcomerToken, BadSignatureToken} :
          handleConnection(c, [auth |-> t, authorization |-> NoHeader])
    \/ \E c \in Conns : handleConnectionVerified(c)
    \/ \E c \in Conns : getSigningKeyTimesOut(c)
    \/ \E c \in Conns : handleConnectionFound(c)
    \/ \E c \in Conns : handleConnectionCreated(c)
    \/ \E c \in Conns : Disconnect(c)
    \/ \E c \in Conns :
          /\ inflight[c] = <<>>
          /\ handleUpdateLocation(c, [tripId |-> 1, location |-> "A",
                                      status |-> "ACCEPTED"])
    \/ \E c \in Conns, i \in 1..MaxInFlight : storeUpdateTrip(c, i)
    \/ \E c \in Conns, i \in 1..MaxInFlight : resumeUpdateLocation(c, i)
    \/ \E c \in Conns : inflight[c] = <<>> /\ handleJoinTrip(c, 1)
    \/ \E c \in Conns, i \in 1..MaxInFlight : storeFindTrip(c, i)
    \/ \E c \in Conns, i \in 1..MaxInFlight : resumeJoinTrip(c, i)
    \/ \E c \in Conns, i \in 1..MaxInFlight : storeFails(c, i)

\* What the runtime and the libraries guarantee of a pending handler: the
\* key set answers or its request times out, and a handler whose awaited
\* promise is settled is resumed. The awaits of the store (findOne, save,
\* findById, findByIdAndUpdate) carry no maxTimeMS and race with no
\* timer, so nothing makes them settle.
LiveFairness ==
    /\ \A c \in Conns :
          WF_vars(handleConnectionVerified(c) \/ getSigningKeyTimesOut(c))
    /\ \A c \in Conns, i \in 1..MaxInFlight :
          /\ WF_vars(resumeUpdateLocation(c, i))
          /\ WF_vars(resumeJoinTrip(c, i))

\* The tokens of the key-cache scenario: two with the published kid, one
\* with a kid the key set does not have, one without kid.
KeyTokens ==
    {DriverToken, PassengerToken, [PassengerToken EXCEPT !.kid = "k9"],
     [PassengerToken EXCEPT !.kid = ""]}

\* The loads the client can hold in the scenario.
Loads == [kid : {"k1", "k9"}, queue : SUBSET Conns \ {{}}, open : BOOLEAN]

\* Handshakes whose verification goes through the key cache: a handshake
\* goes on once its getSigningKey call is settled, or at once when
\* verifyIdToken fails before that call.
KeysNext ==
    \/ \E c \in Conns, t \in KeyTokens :
          handleConnection(c, [auth |-> t, authorization |-> NoHeader])
    \/ \E c \in Conns : getSigningKey(c)
    \/ \E load \in Loads : queueMaxAge(load)
    \/ \E load \in Loads : jwksResponds(load)
    \/ \E c \in Conns :
          /\ c \in client.settled \/ ~Decodes(hc[c].token)
          /\ handleConnectionVerified(c)
    \/ \E c \in Conns : handleConnectionFound(c)
    \/ \E c \in Conns : handleConnectionCreated(c)
    \/ \E c \in Conns : Disconnect(c)

\* As TripsInit, where a connection other than the first may also be one
\* whose handshake still awaits the store: connected, without session.
FailInit ==
    /\ driverUids = DriverUidsEnv
    /\ env = <<"uidD">>
    /\ client = NewJwksClient
    /\ caught = NoCatch
    /\ users = ProvisionedUsers
    /\ trips = [i \in 1..MaxTrips |-> createTrip(2, "Av. Italia 1234")]
    /\ lastWrite = [i \in 1..MaxTrips |->
                       [status |-> "REQUESTED", location |-> NoLocation]]
    /\ sock = [c \in Conns |-> "connected"]
    /\ dataUser \in {f \in [Conns -> {SessionUser(1), SessionUser(2), NoUser}] :
                         f[1] = SessionUser(1)}
    /\ hc = [c \in Conns |->
                IF dataUser[c] = NoUser
                THEN [pc |-> "find", token |-> PassengerToken,
                      firebaseUid |-> "uidP", email |-> "p@x"]
                ELSE [pc |-> "done",
                      token |-> Token(dataUser[c].firebaseUid, dataUser[c].email),
                      firebaseUid |-> dataUser[c].firebaseUid,
                      email |-> dataUser[c].email]]
    /\ rooms = [room \in Rooms |-> {}]
    /\ inflight = [c \in Conns |-> <<>>]
    /\ out = NoOut
    /\ rest = [r \in Reqs |-> RestIdle]

\* Updates with every way of failing, and joins of the stored trip.
FailNext ==
    \/ \E c \in Conns, dto \in ErrorDtos : handleUpdateLocation(c, dto)
    \/ \E c \in Conns, i \in 1..MaxInFlight : storeUpdateTrip(c, i)
    \/ \E c \in Conns, i \in 1..MaxInFlight : resumeUpdateLocation(c, i)
    \/ \E c \in Conns : handleJoinTrip(c, 1)
    \/ \E c \in Conns, i \in 1..MaxInFlight : storeFindTrip(c, i)
    \/ \E c \in Conns, i \in 1..MaxInFlight : resumeJoinTrip(c, i)

\* Handshakes with and without auth.token (the passenger's token, one
\* with a bad signature) and with each kind of Authorization header:
\* none, "Bearer " and the driver's token, "Bearer " and nothing, another
\* scheme, and the scheme in lower case.
HandshakeCases ==
    {[auth |-> t, authorization |-> h] :
        t \in {NoToken, PassengerToken, BadSignatureToken},
        h \in {NoHeader} \cup
              {[scheme |-> sch, token |-> DriverToken] :
                  sch \in {"Bearer ", "Basic ", "bearer "}} \cup
              {[scheme |-> "Bearer ", token |-> NoToken]}}

HandshakeNext ==
    \/ \E c \in Conns, handshake \in HandshakeCases : handleConnection(c, handshake)
    \/ \E c \in Conns : handleConnectionVerified(c)
    \/ \E c \in Conns : handleConnectionFound(c)
    \/ \E c \in Conns : handleConnectionCreated(c)
    \/ \E c \in Conns : Disconnect(c)

\* The whole system from construction.
Spec == Init /\ [][Next]_vars

\* Authentication and provisioning, over connections and REST requests.
SpecAuth == Init /\ [][AuthNext \/ RestNext]_vars

\* The gateway's events on authenticated connections over stored trips.
SpecTrips == TripsInit /\ [][TripsNext]_vars

\* Authentication across restarts of the server with another DRIVER_UIDS.
SpecRoles == Init /\ [][RolesNext]_vars

\* The gateway's events over two trips and their rooms.
SpecRooms == RoomsInit /\ [][RoomsNext]_vars

\* The REST endpoints while a driver updates the trip over its connection.
SpecList == ListInit /\ [][ListNext]_vars

\* Every operation of the system on one trip, from before its creation.
SpecFrame == FrameInit /\ [][FrameNext]_vars

\* Authentication with valid and with corrupted tokens, on both entry points.
SpecTokens == Init /\ [][TokensNext]_vars

\* Updates with every kind of location on authenticated connections.
SpecLocation == TripsInit /\ [][LocationNext]_vars

\* Updates that target REQUESTED on authenticated connections.
SpecTarget == TripsInit /\ [][TargetNext]_vars

\* The failures of the events of authenticated connections.
SpecErrors == TripsInit /\ [][ErrorsNext]_vars

\* A connection's handshake together with the events it sends meanwhile.
SpecConnect == ConnectInit /\ [][ConnectNext]_vars

\* Failing updates of drivers, passengers and connections without session.
SpecFail == FailInit /\ [][FailNext]_vars

\* Handshakes with every combination of auth.token and Authorization header.
SpecHandshake == Init /\ [][HandshakeNext]_vars

\* Catch blocks that convert their error with handleWsException.
SpecWsError == Init /\ [][WsErrorNext]_vars

\* Starts of the server with every value of DRIVER_UIDS.
SpecEnv == Init /\ [][EnvNext]_vars

\* Handshakes with the key cache between the verifier and the key set.
SpecKeys == Init /\ [][KeysNext]_vars

\* Handshakes and events with a key set and a store that may stay silent.
SpecLive == LiveInit /\ [][LiveNext]_vars /\ LiveFairness

(***************************************************************************)
(* Properties.                                                             *)
(***************************************************************************)
\* The subjects of the tokens clients present.
Uids == {t.sub : t \in Tokens} \ {""}

IdentitiesOf(uid) == {i \in 1..Len(users) : users[i].firebaseUid = uid}

\* A caller (connection or REST request) has left findOrCreate for uid.
FinishedFor(uid) ==
    \/ \E c \in Conns : hc[c].pc \in {"done", "syncFailed"} /\ hc[c].firebaseUid = uid
    \/ \E r \in Reqs : rest[r].pc \in {"save", "list", "done"}
                       /\ rest[r].firebaseUid = uid

\* C1: the users collection never holds two documents with the same
\* firebaseUid, however the lookups and creates of concurrent callers
\* interleave, and holds exactly one once a caller has left findOrCreate
\* for that firebaseUid.
C1_OneIdentityPerUid ==
    \A uid \in Uids :
        /\ Cardinality(IdentitiesOf(uid)) <= 1
        /\ FinishedFor(uid) => Cardinality(IdentitiesOf(uid)) = 1

\* Two connections raced on the same new uid: both saw "not found", one
\* created the user, the other's create hit the index.
C1_Witness ==
    \E c, d \in Conns :
        /\ hc[c].pc = "done" /\ hc[d].pc = "syncFailed"
        /\ hc[c].firebaseUid = hc[d].firebaseUid
        /\ Cardinality(IdentitiesOf(hc[c].firebaseUid)) = 1

\* C2: a caller whose create hits the unique index retries the lookup and
\* authenticates: no connection is closed and no request is answered 401
\* after its token was accepted.
C2_RaceResolvedByRetry ==
    /\ \A c \in Conns : hc[c].pc # "syncFailed"
    /\ \A r \in Reqs : ~(rest[r].pc = "done" /\ rest[r].code = 401
                         /\ rest[r].firebaseUid # "")

\* The identity a session was built from.
StoredIdentity(user) ==
    /\ user._id \in 1..Len(users)
    /\ users[user._id].firebaseUid = user.firebaseUid
    /\ users[user._id].email = user.email
    /\ users[user._id].roles = user.roles

\* The token passes every test of the verification.
Verifies(token) ==
    /\ token.wellFormed /\ token.kid \in JwksKids /\ token.alg = "RS256"
    /\ token.sigOk /\ ~token.expired
    /\ token.iss = IssuerOf(ProjectId) /\ token.aud = ProjectId
    /\ token.sub # "" /\ token.email # ""

\* C9: a connection without a token, with a token that fails verification
\* or whose user sync fails is closed and has no session; a connection
\* still in its handshake has no session; a session is attached only to a
\* connection whose token verifies and whose handshake has completed, it
\* equals the stored user (id, firebaseUid, email, roles) of the token's
\* subject, and a connection that completed its handshake has one.
C9_SessionOnlyAfterHandshake ==
    \A c \in Conns :
        /\ hc[c].pc \in {"noToken", "badToken", "syncFailed"}
              => sock[c] = "disconnected" /\ dataUser[c] = NoUser
        /\ hc[c].pc \in {"idle", "verify", "find", "create"} => dataUser[c] = NoUser
        /\ hc[c].pc = "done" => dataUser[c] # NoUser
        /\ dataUser[c] # NoUser =>
              /\ hc[c].pc = "done"
              /\ Verifies(hc[c].token)
              /\ dataUser[c].firebaseUid = hc[c].token.sub
              /\ StoredIdentity(dataUser[c])

\* One connection is authenticated with its session while another was
\* closed for a token that failed verification.
C9_Witness ==
    \E c, d \in Conns :
        /\ sock[c] = "connected" /\ hc[c].pc = "done" /\ dataUser[c] # NoUser
        /\ hc[d].pc = "badToken" /\ sock[d] = "disconnected"

\* The update-location payloads that pass the pipe.
ValidDtos ==
    {dto \in [tripId : TripIds, location : Locations, status : TripStatus] :
        ValidUpdateLocationDto(dto)}

\* The in-flight update-location handlers.
Updates ==
    {ci \in Conns \X (1..MaxInFlight) :
        /\ ci[2] <= Len(inflight[ci[1]])
        /\ inflight[ci[1]][ci[2]].event = "update-location"}

C4_RequestedOnlyAtCreation ==
    /\ [](\A ci \in Updates : inflight[ci[1]][ci[2]].status # "REQUESTED")
    /\ [][/\ \A i \in 1..Len(trips) :
               trips[i].status # "REQUESTED" => trips'[i].status # "REQUESTED"
          /\ \A i \in 1..Len(trips) :
               i \in findActiveRequestedTrips' => i \in findActiveRequestedTrips]_vars

\* An update-location has just been refused by the pipe on a trip that
\* left REQUESTED and has been updated again since (its first update is
\* still to be acknowledged).
C4_Witness ==
    /\ out.event = "update-location" /\ out.error = "Bad Request"
    /\ \E i \in 1..Len(trips) :
          /\ trips[i].status \notin {"REQUESTED"}
          /\ \E ci \in Updates :
                /\ inflight[ci[1]][ci[2]].pc = "resume"
                /\ inflight[ci[1]][ci[2]].tripId = i
                /\ inflight[ci[1]][ci[2]].doc.status # trips[i].status

\* C5: the status of a trip only moves forward in the order REQUESTED,
\* ACCEPTED, IN_PROGRESS, COMPLETED: no step changes it to an earlier one.
C5_StatusOnlyForward ==
    [][\A i \in 1..Len(trips) :
          StatusRank(trips'[i].status) >= StatusRank(trips[i].status)]_vars

\* C6: for a driver's session, every stored trip in whatever status and
\* every payload with a non-empty location and a target among ACCEPTED,
\* IN_PROGRESS, COMPLETED passes all checks and reaches the store; the
\* store's step sets the trip's status to the target, and the handler
\* then acknowledges with the updated trip.
C6_AnyTargetFromAnyStatus ==
    /\ [](\A c \in Conns : "driver" \in dataUser[c].roles =>
            \A dto \in ValidDtos : dto.tripId \in 1..Len(trips) =>
                updateLocationOutcome(dataUser[c], dto) = "await")
    /\ [][\A ci \in Updates :
            LET t == inflight[ci[1]][ci[2]]
            IN  /\ (/\ t.pc = "await" /\ t.tripId \in 1..Len(trips)
                    /\ Len(inflight'[ci[1]]) = Len(inflight[ci[1]])
                    /\ inflight'[ci[1]][ci[2]].pc = "resume")
                   => /\ trips'[t.tripId].status = t.status
                      /\ inflight'[ci[1]][ci[2]].doc.found
                      /\ inflight'[ci[1]][ci[2]].doc.status = t.status
                /\ (/\ t.pc = "resume" /\ t.doc.found
                    /\ Len(inflight[ci[1]]) = 1 /\ inflight'[ci[1]] = <<>>)
                   => /\ out'.conn = ci[1] /\ out'.error = ""
                      /\ out'.doc = t.doc]_vars

\* Two updates of drivers are applied and not yet acknowledged, the one
\* that set COMPLETED and after it the one that set ACCEPTED: the trip
\* went from COMPLETED back to ACCEPTED.
C6_Witness ==
    \E ci, dj \in Updates :
        LET t == inflight[ci[1]][ci[2]]
            u == inflight[dj[1]][dj[2]]
        IN  /\ ci # dj /\ t.tripId = u.tripId
            /\ t.pc = "resume" /\ t.doc.found /\ t.doc.status = "COMPLETED"
            /\ u.pc = "resume" /\ u.doc.found /\ u.doc.status = "ACCEPTED"
            /\ trips[t.tripId].status = "ACCEPTED"

\* C7: the stored (status, currentLocation) of every trip is the pair of
\* the request the store applied last, or the creation pair if it applied
\* none: never the status of one request with the location of another.
C7_PairOfLastWrite ==
    \A i \in 1..Len(trips) :
        [status |-> trips[i].status, location |-> trips[i].currentLocation]
            = lastWrite[i]

\* C7 (amended): the stored (status, currentLocation) of every trip is
\* the status of the request the store applied last together with that
\* request's location without the blanks around it, or the creation pair
\* if the store applied none: never the status of one request with the
\* location of another.
C7_PairOfLastWriteTrimmed ==
    \A i \in 1..Len(trips) :
        [status |-> trips[i].status, location |-> trips[i].currentLocation]
            = [status |-> lastWrite[i].status,
               location |-> Trim(lastWrite[i].location)]

\* Updates of two different connections on the same trip, with different
\* pairs, are both applied and not yet acknowledged.
C7_Witness ==
    \E ci, dj \in Updates :
        LET t == inflight[ci[1]][ci[2]]
            u == inflight[dj[1]][dj[2]]
        IN  /\ ci[1] # dj[1] /\ t.tripId = u.tripId
            /\ t.pc = "resume" /\ u.pc = "resume" /\ t.doc.found /\ u.doc.found
            /\ t.doc.status # u.doc.status
            /\ t.doc.currentLocation # u.doc.currentLocation
            /\ trips[t.tripId].status = u.doc.status
            /\ trips[t.tripId].currentLocation = u.doc.currentLocation

\* The update-location handler of connection c that the step completes
\* with a success: the positions it may have had among c's handlers.
Completed(c) ==
    {i \in 1..Len(inflight[c]) :
        /\ inflight[c][i].event = "update-location"
        /\ inflight[c][i].pc = "resume"
        /\ inflight[c][i].doc.found
        /\ inflight'[c] = RemoveAt(inflight[c], i)
        /\ out'.conn = c /\ out'.event = "update-location" /\ out'.error = ""}

\* C11: when an update-location of connection c on trip T completes with
\* success, c is a member of room trip:T whether or not it was before,
\* the trip-update goes to exactly the connected members of trip:T (c
\* among them), its payload is trip T with the status and the location
\* of the request, and c's ack is that same document.
C11_BroadcastOfRequest ==
    [][\A c \in Conns : \A i \in Completed(c) :
          LET t == inflight[c][i]
              room == getTripRoom(t.tripId)
          IN  /\ c \in rooms'[room]
              /\ rooms'[room] = rooms[room] \cup {c}
              /\ out'.to = {m \in rooms'[room] : sock[m] = "connected"}
              /\ out'.acked /\ c \in out'.to
              /\ out'.doc = [found |-> TRUE, _id |-> t.tripId,
                             status |-> t.status,
                             currentLocation |-> t.location]]_vars

\* C11 (amended): as C11, the payload carrying the location of the request
\* without the blanks around it.
C11_BroadcastOfRequestTrimmed ==
    [][\A c \in Conns : \A i \in Completed(c) :
          LET t == inflight[c][i]
              room == getTripRoom(t.tripId)
          IN  /\ c \in rooms'[room]
              /\ rooms'[room] = rooms[room] \cup {c}
              /\ out'.to = {m \in rooms'[room] : sock[m] = "connected"}
              /\ out'.acked /\ c \in out'.to
              /\ out'.doc = [found |-> TRUE, _id |-> t.tripId,
                             status |-> t.status,
                             currentLocation |-> Trim(t.location)]]_vars

\* An update-location whose location had blanks around it has just been
\* acknowledged and broadcast to its sender, which had not joined, and to
\* another connection that had.
C11_Witness ==
    /\ out.event = "update-location" /\ out.error = "" /\ out.acked
    /\ out.doc.currentLocation = "B" /\ out.doc.status = "COMPLETED"
    /\ lastWrite[out.doc._id].location = " B "
    /\ out.to = Conns /\ \A c \in Conns : c \in rooms[getTripRoom(out.doc._id)]

\* C12: a trip-update for trip T reaches only members of room trip:T at
\* the time of the broadcast, that is connections that were members
\* before the step or the sender, which the handler has just joined: a
\* connection outside trip:T gets none, whatever other rooms it is in.
C12_UpdateOnlyToMembers ==
    [][out'.to # {} =>
          LET room == getTripRoom(out'.doc._id)
          IN  /\ out'.event = "update-location" /\ out'.doc.found
              /\ out'.to \subseteq rooms'[room]
              /\ \A m \in out'.to : m \in rooms[room] \/ m = out'.conn]_vars

\* A trip-update has just been sent while a connected connection that is
\* a member of another trip's room, and not of this one, received none.
C12_Witness ==
    /\ out.to # {}
    /\ \E m \in Conns, t \in 1..Len(trips) :
          /\ t # out.doc._id /\ sock[m] = "connected"
          /\ m \in rooms[getTripRoom(t)]
          /\ m \notin rooms[getTripRoom(out.doc._id)]
          /\ m \notin out.to

\* C13: a closed connection is a member of no room, also when one of its
\* handlers was awaiting the store at the time it closed and resumes
\* afterwards.
C13_ClosedHasNoMembership ==
    \A c \in Conns : sock[c] = "disconnected" =>
        \A room \in Rooms : c \notin rooms[room]

\* C14: an update-location whose connection has closed before the store
\* applied it is cancelled: every step that changes a trip applies the
\* update of a connection that is still open, and a handler of a closed
\* connection emits no trip-update.
C14_DisconnectCancels ==
     [][/\ trips' # trips =>
             \E ci \in Updates :
                 /\ sock[ci[1]] = "connected"
                 /\ inflight[ci[1]][ci[2]].pc = "await"
                 /\ inflight'[ci[1]][ci[2]].pc = "resume"
        /\ \A c \in Conns : \A i \in 1..Len(inflight[c]) :
             (/\ sock[c] = "disconnected"
              /\ inflight[c][i].event = "update-location"
              /\ inflight[c][i].pc = "resume"
              /\ inflight'[c] = RemoveAt(inflight[c], i))
             => out'.to = {}]_vars

\* The join-trip handlers of connection c that the step may have completed.
JoinCompleted(c) ==
    {i \in 1..Len(inflight[c]) :
        /\ inflight[c][i].event = "join-trip"
        /\ inflight[c][i].pc = "resume"
        /\ inflight'[c] = RemoveAt(inflight[c], i)}

\* The join-trip payload for a tripId.
JoinDto(tripId) == [tripId |-> tripId, location |-> "", status |-> ""]

\* C15: a join-trip for a well-formed tripId under which no trip is stored
\* gets null from the store and ends with the error "Trip not found",
\* sent to the caller; no membership changes, the room of such a tripId
\* never has a member, and the connection stays open with its session.
C15_JoinUnknownTrip ==
    /\ [](\A t \in TripIds : (ObjectIdIsValid(t) /\ t \notin 1..Len(trips)) =>
            findById(t) = "null" /\ rooms[getTripRoom(t)] = {})
    /\ [][\A c \in Conns : \A i \in JoinCompleted(c) :
            LET t == inflight[c][i]
            IN  (ObjectIdIsValid(t.tripId) /\ t.tripId \notin 1..Len(trips)) =>
                   /\ t.res = "null"
                   /\ out'.conn = c /\ out'.event = "join-trip"
                   /\ out'.error = "Trip not found" /\ out'.acked
                   /\ rooms' = rooms
                   /\ sock'[c] = "connected" /\ dataUser'[c] = dataUser[c]
                   /\ dataUser[c] # NoUser]_vars

\* A join-trip has just failed with "Trip not found" on a connection that
\* is open, has its session and is a member of the room of a stored trip.
C15_Witness ==
    /\ out.event = "join-trip" /\ out.error = "Trip not found" /\ out.acked
    /\ sock[out.conn] = "connected" /\ dataUser[out.conn] # NoUser
    /\ \E t \in 1..Len(trips) : out.conn \in rooms[getTripRoom(t)]

\* C16: a join-trip reaches the store exactly when the connection has a
\* session, whatever its roles and whoever the trip's passenger is, and
\* never without one; it then succeeds exactly when the trip is stored;
\* a success adds the connection to room trip:<tripId>, changes no other
\* membership and acknowledges {ok: true, room}; on a connection that is
\* already a member it leaves the rooms as they are.
C16_JoinIffAuthenticatedAndStored ==
    /\ [](\A t \in TripIds \ {0} :
            /\ joinTripOutcome(NoUser, JoinDto(t)) = "Unauthorized"
            /\ \A c \in Conns : dataUser[c] # NoUser =>
                  joinTripOutcome(dataUser[c], JoinDto(t)) = "await")
    /\ [][\A c \in Conns : \A i \in JoinCompleted(c) :
            LET t == inflight[c][i]
                room == getTripRoom(t.tripId)
            IN  /\ out'.conn = c /\ out'.event = "join-trip"
                /\ dataUser[c] # NoUser
                /\ out'.error = "" <=> t.tripId \in 1..Len(trips)
                /\ out'.error = "" =>
                      /\ out'.room = room /\ out'.acked
                      /\ rooms' = [rooms EXCEPT ![room] = @ \cup {c}]
                      /\ c \in rooms[room] => rooms' = rooms
                /\ out'.error # "" => rooms' = rooms]_vars

\* The driver, who is not the trip's passenger, has just joined the room
\* of a trip, and a second join-trip of the same connection for the same
\* trip is about to complete.
C16_Witness ==
    /\ out.event = "join-trip" /\ out.error = "" /\ out.acked
    /\ "driver" \in dataUser[out.conn].roles
    /\ out.conn \in rooms[out.room]
    /\ \E i \in 1..Len(inflight[out.conn]) :
          /\ inflight[out.conn][i].event = "join-trip"
          /\ inflight[out.conn][i].pc = "resume"
          /\ inflight[out.conn][i].res = "found"
          /\ getTripRoom(inflight[out.conn][i].tripId) = out.room

\* C17: every leave-trip is acknowledged with {ok: true, room}, the room
\* being the one named by the payload's tripId; afterwards the caller is
\* not in that room, no other membership has changed, no trip has
\* changed, and for a caller that was not a member nothing has changed.
C17_LeaveFrame ==
    [][out'.event = "leave-trip" =>
          LET c == out'.conn
          IN  /\ out'.error = "" /\ out'.acked /\ out'.room \in Rooms
              /\ c \notin rooms'[out'.room]
              /\ \A room \in Rooms :
                    rooms'[room] = IF room = out'.room THEN rooms[room] \ {c}
                                   ELSE rooms[room]
              /\ c \notin rooms[out'.room] => rooms' = rooms
              /\ trips' = trips /\ inflight' = inflight
              /\ dataUser' = dataUser /\ sock' = sock]_vars

\* A connection has just left the room of one trip, which another
\* connection is still in, and is still a member of the other trip's room.
C17_Witness ==
    /\ out.event = "leave-trip" /\ out.error = "" /\ out.acked
    /\ out.conn \notin rooms[out.room]
    /\ \E m \in Conns : m # out.conn /\ m \in rooms[out.room]
    /\ \E room \in Rooms : room # out.room /\ out.conn \in rooms[room]

C19_DriverIffListed ==
    /\ \A c \in Conns : dataUser[c] # NoUser =>
          ("driver" \in dataUser[c].roles <=> dataUser[c].firebaseUid \in driverUids)
    /\ \A r \in Reqs : rest[r].user # NoUser =>
          ("driver" \in rest[r].user.roles <=> rest[r].user.firebaseUid \in driverUids)

\* C20: determineRoles yields {"driver"} for a UID in the driver list and
\* {"passenger"} for any other, the empty one included; every stored
\* user and every session has exactly one of these two role sets.
C20_OneRoleFromList ==
    /\ \A uid \in Uids \cup {"", "uidX"} :
          determineRoles(uid) =
              IF uid \in driverUids THEN {"driver"} ELSE {"passenger"}
    /\ \A i \in 1..Len(users) : users[i].roles \in {{"driver"}, {"passenger"}}
    /\ \A c \in Conns : dataUser[c] # NoUser =>
          dataUser[c].roles \in {{"driver"}, {"passenger"}}

\* A user created while their UID was in the driver list is stored as
\* driver, and a connection holds that user's session.
C20_Witness ==
    \E i \in 1..Len(users), c \in Conns :
        /\ users[i].roles = {"driver"} /\ users[i].firebaseUid = "uidP"
        /\ dataUser[c] # NoUser /\ dataUser[c]._id = i

\* C8: a connection's events are handled one at a time in arrival order:
\* the store applies the update of an event only when every earlier
\* event of the connection has completed.
C8_OneEventAtATime ==
    \A ci \in Updates : inflight[ci[1]][ci[2]].pc = "resume" => ci[2] = 1

\* C10: an event is acknowledged with success only on a connection that
\* has completed its handshake and has a session.
C10_EventsOnlyWhenAuthenticated ==
    (out.conn # 0 /\ out.error = "") =>
        hc[out.conn].pc = "done" /\ dataUser[out.conn] # NoUser

\* The requests for an endpoint that the step answers.
Answered(endpoint) ==
    {r \in Reqs : /\ rest[r].pc # "done" /\ rest'[r].pc = "done"
                  /\ rest'[r].endpoint = endpoint}

\* C21: a create-trip request is answered 201 only when its token verifies
\* and its user has role "passenger", and the step then adds exactly one
\* trip: status REQUESTED, passenger the user's stored id, the given
\* destination, no currentLocation; with a user that has role "driver"
\* it is answered 403, and with a token that does not verify 401, the
\* trips staying as they were; and nothing else adds a trip.
C21_CreateOnlyByAuthenticatedPassenger ==
     [][/\ \A r \in Answered("createTrip") :
             LET q == rest'[r]
             IN  /\ q.code = 201 =>
                       /\ Verifies(q.token)
                       /\ "passenger" \in q.user.roles
                       /\ StoredIdentity(q.user)
                       /\ trips' = Append(trips,
                              [passenger |-> q.user._id,
                               destination |-> q.destination,
                               status |-> "REQUESTED",
                               currentLocation |-> NoLocation])
                 /\ "driver" \in q.user.roles => q.code = 403 /\ trips' = trips
                 /\ ~Verifies(q.token) => q.code = 401 /\ trips' = trips
        /\ trips' # trips => Answered("createTrip") # {}]_vars

\* C22: a list-active-trips request of a user with role "driver" is
\* answered 200 with exactly the trips whose stored status is REQUESTED
\* when the store runs the query, each carrying its passenger's stored
\* identity (id, firebaseUid, email, roles), so with no trip that an
\* update has taken out of REQUESTED; a request of a user without role
\* "driver" is answered 403; and the query changes nothing.
C22_ListIsRequestedTrips ==
    [][\A r \in Answered("listActiveTrips") :
          LET q == rest'[r]
          IN  /\ "driver" \in q.user.roles =>
                    /\ q.code = 200
                    /\ {d._id : d \in q.body} =
                           {i \in 1..Len(trips) : trips[i].status = "REQUESTED"}
                    /\ \A d \in q.body :
                          /\ d.status = "REQUESTED"
                          /\ d.destination = trips[d._id].destination
                          /\ d.passenger._id = trips[d._id].passenger
                          /\ StoredIdentity(d.passenger)
                          /\ lastWrite[d._id].status = "REQUESTED"
                    /\ \A i \in 1..Len(trips) :
                          lastWrite[i].status # "REQUESTED" =>
                              \A d \in q.body : d._id # i
              /\ (q.user # NoUser /\ "driver" \notin q.user.roles) =>
                    q.code = 403 /\ q.body = {}
              /\ q.code = 200 => "driver" \in q.user.roles
              /\ trips' = trips /\ users' = users]_vars

\* The driver has just been given the list with the trip the passenger
\* created, carrying the passenger's identity, while the driver's update
\* of that trip is on its way to the store.
C22_Witness ==
    \E r \in Reqs :
        /\ rest[r].pc = "done" /\ rest[r].endpoint = "listActiveTrips"
        /\ rest[r].code = 200 /\ rest[r].user.firebaseUid = "uidD"
        /\ \E d \in rest[r].body :
              /\ d._id = 1 /\ d.passenger.firebaseUid = "uidP"
              /\ d.passenger.roles = {"passenger"}
        /\ \E ci \in Updates : inflight[ci[1]][ci[2]].pc = "await"

\* C23: no step removes a trip or changes the passenger or the
\* destination of a stored trip: the trips of before the step are all
\* still there, under the same ids, with the passenger and destination
\* they had.
C23_RiderAndDestinationFrozen ==
    [][/\ Len(trips') >= Len(trips)
       /\ \A i \in 1..Len(trips) :
             /\ trips'[i].passenger = trips[i].passenger
             /\ trips'[i].destination = trips[i].destination]_vars

\* The trip the passenger created has been updated to COMPLETED by the
\* driver, whose connection has since closed while the passenger's
\* connection is in the trip's room; the trip still has its passenger
\* and its destination.
C23_Witness ==
    /\ Len(trips) = 1 /\ trips[1].status = "COMPLETED"
    /\ trips[1].currentLocation = "B"
    /\ trips[1].passenger = 2 /\ trips[1].destination = "Av. Italia 1234"
    /\ sock[1] = "disconnected"
    /\ \E c \in Conns : c # 1 /\ c \in rooms[getTripRoom(1)]

\* C24: verifyIdToken accepts a token exactly when it is decodable with a
\* kid, the kid is in the key set, the algorithm is RS256, the signature
\* verifies, it is unexpired, issuer and audience are the project's, and
\* it has both sub and email; an accepted token yields exactly its sub
\* and its email, a refused one an "Invalid token" error; every single
\* corruption of a valid token is refused; and a handshake goes on to the
\* user lookup, with that sub and email, exactly for such a token, and
\* is closed otherwise.
C24_VerifierAcceptsIffAllHold ==
    /\ [](/\ \A t \in TokenCases :
                LET r == verifyIdToken(t)
                IN  /\ r.ok <=> Verifies(t)
                    /\ r.ok => /\ r.firebaseUid = t.sub /\ r.email = t.email
                               /\ r.error = ""
                    /\ ~r.ok => /\ r.error \in {"Invalid token format",
                                                "Invalid token"}
                                /\ r.firebaseUid = "" /\ r.email = ""
          /\ \A t \in {DriverToken, PassengerToken} :
                /\ verifyIdToken(t).ok
                /\ \A bad \in Corruptions(t) : ~verifyIdToken(bad).ok)
    /\ [][\A c \in Conns : (hc[c].pc = "verify" /\ hc'[c].pc # "verify") =>
             IF Verifies(hc[c].token)
             THEN /\ hc'[c].pc = "find" /\ sock'[c] = sock[c]
                  /\ hc'[c].firebaseUid = hc[c].token.sub
                  /\ hc'[c].email = hc[c].token.email
             ELSE /\ hc'[c].pc = "badToken" /\ sock'[c] = "disconnected"
                  /\ hc'[c].firebaseUid = "" /\ users' = users]_vars

\* A connection whose token verified has its session while another, whose
\* token differs from a valid one in the audience alone, was closed.
C24_Witness ==
    \E c, d \in Conns :
        /\ hc[c].pc = "done" /\ Verifies(hc[c].token)
        /\ dataUser[c].firebaseUid = hc[c].token.sub
        /\ hc[d].pc = "badToken" /\ sock[d] = "disconnected"
        /\ hc[d].token = [PassengerToken EXCEPT !.aud = "other-project"]

\* C25: a REST request and a handshake treat every token alike: each goes
\* past its token check exactly when the token verifies, a request
\* refused at the token check is answered 401 as the handshake is closed,
\* the user of either is the stored user of the token's sub, and a token
\* without the sub claim gets past neither.
C25_SameAuthentication ==
    /\ \A c \in Conns :
          /\ hc[c].pc \in {"find", "create", "done", "syncFailed"}
                => Verifies(hc[c].token)
          /\ hc[c].pc = "badToken" => ~Verifies(hc[c].token)
          /\ dataUser[c] # NoUser =>
                dataUser[c].firebaseUid = hc[c].token.sub
          /\ (hc[c].pc \notin {"idle", "noToken", "verify"}
              /\ hc[c].token.sub = "") => hc[c].pc = "badToken"
    /\ \A r \in Reqs :
          /\ rest[r].firebaseUid # "" => Verifies(rest[r].token)
          /\ (rest[r].pc = "done" /\ rest[r].firebaseUid = "")
                => rest[r].code = 401 /\ ~Verifies(rest[r].token)
          /\ rest[r].user # NoUser =>
                /\ rest[r].user.firebaseUid = rest[r].token.sub
                /\ StoredIdentity(rest[r].user)
          /\ (rest[r].pc # "idle" /\ rest[r].token.sub = "")
                => rest[r].pc = "done" /\ rest[r].code = 401

\* C26: an update-location whose location is empty or absent is refused
\* by the validation with an error on the location, on every connection
\* and whatever its other fields, and the refusal changes no trip; and
\* the currentLocation of a trip that an update has been applied to is
\* a non-empty string.
C26_LocationNeverEmpty ==
    /\ [](/\ \A dto \in [tripId : TripIds, location : {"", NoLocation},
                         status : TripStatus] :
                /\ "location" \in UpdateLocationDtoErrors(dto)
                /\ \A c \in Conns :
                      updateLocationOutcome(dataUser[c], dto) = "Bad Request"
          /\ \A i \in 1..Len(trips) :
                LET applied ==
                        \/ lastWrite[i].status # "REQUESTED"
                        \/ lastWrite[i].location # NoLocation
                IN  applied => trips[i].currentLocation \notin {"", NoLocation})
    /\ [][out'.error = "Bad Request" => trips' = trips]_vars

\* C27: an update-location of a driver that targets REQUESTED is refused
\* by the validation with an error on the status, whatever its tripId
\* (empty, malformed, of no stored trip, of a stored trip) and its
\* location; the service refuses that target as well for every
\* well-formed tripId; no such update reaches the store, and the refusal
\* changes no trip.
C27_RequestedTargetRefused ==
    /\ [](/\ \A c \in Conns : "driver" \in dataUser[c].roles =>
                \A dto \in [tripId : TripIds, location : Locations \cup {NoLocation},
                            status : {"REQUESTED"}] :
                    /\ "status" \in UpdateLocationDtoErrors(dto)
                    /\ updateLocationOutcome(dataUser[c], dto) = "Bad Request"
                    /\ ObjectIdIsValid(dto.tripId) =>
                          updateLocationChecks(dataUser[c], dto.tripId,
                                               dto.location, dto.status)
                              = "Cannot set status back to REQUESTED"
          /\ \A ci \in Updates : inflight[ci[1]][ci[2]].status # "REQUESTED")
    /\ [][(out'.event = "update-location" /\ out'.error = "Bad Request") =>
             /\ trips' = trips /\ inflight' = inflight /\ rooms' = rooms
             /\ out'.to = {} /\ out'.doc = NoDoc]_vars

\* The driver's update that targets REQUESTED has just been refused on a
\* trip that an earlier update had set to ACCEPTED: the trip is still
\* ACCEPTED.
C27_Witness ==
    /\ out.event = "update-location" /\ out.error = "Bad Request"
    /\ "driver" \in dataUser[out.conn].roles
    /\ trips[1].status = "ACCEPTED" /\ lastWrite[1].status = "ACCEPTED"
    /\ inflight[out.conn] = <<>>

\* The exceptions of the error taxonomy: no session, Forbidden, NotFound
\* (update, join) and InvalidInput (malformed tripId in an update, target
\* REQUESTED, a payload the validation refuses, malformed tripId in a join).
TaxonomyErrors ==
    {"Unauthorized", "Forbidden", "Not Found", "Trip not found",
     "Invalid tripId format", "Cannot set status back to REQUESTED",
     "Bad Request", "CastError"}

\* The fixed messages of the failures outside the taxonomy.
GenericMessages ==
    {"Internal server error",
     "Internal server error processing location update"}

\* C28: every event that fails leaves the connection open with its
\* session and (the socket being open) sends its caller a message; for
\* a failure of the taxonomy the message is the failure's reason, for any
\* other failure it is one of the fixed generic messages, and it is
\* never the text of an internal error.
C28_FailureEnvelope ==
     [][out'.error # "" =>
          /\ sock'[out'.conn] = sock[out'.conn]
          /\ dataUser'[out'.conn] = dataUser[out'.conn]
          /\ out'.message # ""
          /\ out'.error \in TaxonomyErrors =>
                out'.message = out'.error /\ out'.message \notin GenericMessages
          /\ out'.error \notin TaxonomyErrors => out'.message \in GenericMessages
          /\ out'.message \notin {"CastError", "MongoError"}]_vars

\* C29: an authentication whose token does not verify has no effect: it
\* attaches no session to its connection or request, its connection is in
\* no room, and no step creates or changes a user for it; a user is
\* created only by a caller whose token has verified, and stored users
\* are never changed.
C29_FailedAuthNoEffect ==
    /\ [](/\ \A c \in Conns : ~Verifies(hc[c].token) =>
                /\ dataUser[c] = NoUser
                /\ \A room \in Rooms : c \notin rooms[room]
          /\ \A r \in Reqs : ~Verifies(rest[r].token) => rest[r].user = NoUser)
    /\ [][/\ \A i \in 1..Len(users) : users'[i] = users[i]
          /\ users' # users =>
                \/ \E c \in Conns : /\ hc[c].pc = "create" /\ hc'[c].pc = "done"
                                    /\ Verifies(hc[c].token)
                \/ \E r \in Reqs : /\ rest[r].pc = "create"
                                   /\ rest'[r].pc # "create"
                                   /\ Verifies(rest[r].token)]_vars

\* A handshake is under way on c: handleConnection awaits the verifier
\* or the store.
Connecting(c) == hc[c].pc \in {"verify", "find", "create"}

\* c is Authenticated: its handshake completed and left a session.
Authenticated(c) == hc[c].pc = "done" /\ dataUser[c] # NoUser

\* c is Closed.
Closed(c) == sock[c] = "disconnected"

\* C30: no handler waits forever on I/O. A connection whose handshake
\* is under way eventually is Authenticated or Closed, and an event a
\* connection's handler is working on eventually is answered (its handler
\* ends with the acknowledgement or a failure) unless the connection
\* closes.
C30_NoTaskHangs ==
    /\ \A c \in Conns : Connecting(c) ~> (Authenticated(c) \/ Closed(c))
    /\ \A c \in Conns :
          (inflight[c] # <<>>) ~> (inflight[c] = <<>> \/ Closed(c))

\* The requests of the key set under way for kid.
Fetches(kid) == {load \in client.loading : load.kid = kid}

\* C31: the fetches of the key cache are single-flight. Whatever
\* lookups of a key id wait, at most one request of the key set is under
\* way for that key id.
C31_SingleFlight ==
    \A kid \in {"k1", "k9"} : Cardinality(Fetches(kid)) <= 1

\* The update-location handlers that await the store or its answer.
PendingUpdates ==
    {ci \in Conns \X (1..MaxInFlight) :
        /\ ci[2] <= Len(inflight[ci[1]])
        /\ inflight[ci[1]][ci[2]].event = "update-location"}

\* C32: a failed update-location has no effect. No update of a caller
\* without session or without the driver role, with a malformed tripId
\* or with target REQUESTED gets as far as the store; the step in which
\* an update fails changes no trip and no room and sends no trip-update;
\* a trip only changes for an update whose store call found it, and the
\* handler of such an update does not fail; no trip is ever created.
C32_FailedUpdateNoEffect ==
    /\ [](\A ci \in PendingUpdates :
             LET t == inflight[ci[1]][ci[2]]
             IN  /\ "driver" \in dataUser[ci[1]].roles
                 /\ ObjectIdIsValid(t.tripId)
                 /\ t.status # "REQUESTED"
                 /\ t.pc = "resume" => (t.res = "found" <=> t.tripId \in 1..Len(trips)))
    /\ [][/\ (out'.event = "update-location" /\ out'.error # "") =>
                /\ trips' = trips /\ rooms' = rooms
                /\ out'.to = {} /\ out'.doc = NoDoc
                /\ inflight' # inflight =>
                      \E i \in 1..Len(inflight[out'.conn]) :
                         /\ inflight[out'.conn][i].res # "found"
                         /\ inflight'[out'.conn] = RemoveAt(inflight[out'.conn], i)
          /\ trips' # trips =>
                \E ci \in PendingUpdates :
                   /\ inflight[ci[1]][ci[2]].pc = "await"
                   /\ inflight'[ci[1]][ci[2]].res = "found"
          /\ Len(trips') = Len(trips)]_vars

\* A driver's update of a trip that does not exist has just failed while
\* the other connection is in the room of the stored trip: nobody was
\* sent a trip-update, and the room of the missing trip has no member.
C32_Witness ==
    /\ out.event = "update-location" /\ out.error = "Not Found"
    /\ out.to = {}
    /\ rooms[getTripRoom(MaxTrips + 1)] = {}
    /\ \E c \in Conns \ {out.conn} : c \in rooms[getTripRoom(1)]
    /\ Len(trips) = MaxTrips

\* C33: broadcasts agree with the store. The trip-update of the update
\* that completes when no other update of its trip is under way, the last
\* one its room receives, carries the trip's stored status and
\* currentLocation.
C33_BroadcastsAgreeWithStore ==
 [][(/\ out'.event = "update-location" /\ out'.error = ""
     /\ \A c \in Conns : \A i \in 1..Len(inflight'[c]) :
           ~(/\ inflight'[c][i].event = "update-location"
             /\ inflight'[c][i].tripId = out'.doc._id))
    => /\ out'.doc.status = trips'[out'.doc._id].status
       /\ out'.doc.currentLocation = trips'[out'.doc._id].currentLocation]_vars

\* C34: no garbage rooms. Every room trip:<id> with a member is the room
\* of a stored trip, and no step removes a trip.
C34_NoGarbageRooms ==
    /\ [](\A tripId \in TripIds :
             rooms[getTripRoom(tripId)] # {} => tripId \in 1..Len(trips))
    /\ [][Len(trips') >= Len(trips)]_vars

\* A join of a trip that does not exist has just been refused while the
\* room of the stored trip has a member; the rooms of the ids of no
\* stored trip are empty.
C34_Witness ==
    /\ out.event = "join-trip" /\ out.error = "Trip not found"
    /\ rooms[getTripRoom(1)] # {}
    /\ \A tripId \in TripIds \ (1..Len(trips)) : rooms[getTripRoom(tripId)] = {}

\* The user of request r may use its endpoint.
Allowed(r) ==
    \/ RequiredRoles(rest[r].endpoint) = {}
    \/ RequiredRoles(rest[r].endpoint) \cap rest[r].user.roles # {}

\* C35: on the role-gated endpoints authentication is decided before
\* authorization. A request whose token does not verify is answered 401;
\* a request that got a user is answered 403 exactly when the user has
\* none of the endpoint's roles, and is served otherwise; no stored user
\* passes both the passenger-only and the driver-only endpoints.
C35_AuthenticationBeforeAuthorization ==
    /\ \A r \in Reqs :
          /\ (rest[r].pc = "done" /\ ~Verifies(rest[r].token))
                => rest[r].code = 401
          /\ rest[r].code = 403 => (rest[r].user # NoUser /\ ~Allowed(r))
          /\ (rest[r].user # NoUser /\ ~Allowed(r)) => rest[r].code = 403
          /\ rest[r].pc \in {"save", "list"} \/ rest[r].code \in {200, 201}
                => (rest[r].user # NoUser /\ Allowed(r))
    /\ \A id \in 1..Len(users) :
          ~(/\ canActivate({"passenger"}, SessionUser(id))
            /\ canActivate({"driver"}, SessionUser(id)))

\* C36: on connect the token is auth.token when that is present and not
\* empty; otherwise the rest of the Authorization header when the header
\* starts with "Bearer ", and no token otherwise. A connection without
\* token is closed at once: it has no session, the step that rejects it
\* touches neither the key cache nor the users, and nothing happens to it
\* afterwards; verification and sync only run with a token.
C36_TokenFromAuthThenBearer ==
    /\ [](/\ \A handshake \in HandshakeCases :
               /\ ~Falsy(handshake.auth) =>
                     ExtractToken(handshake) = handshake.auth
               /\ (Falsy(handshake.auth)
                   /\ handshake.authorization.scheme = "Bearer ") =>
                     ExtractToken(handshake) = handshake.authorization.token
               /\ (Falsy(handshake.auth)
                   /\ handshake.authorization.scheme # "Bearer ") =>
                     Falsy(ExtractToken(handshake))
          /\ \A c \in Conns :
               /\ hc[c].pc = "noToken" =>
                     /\ sock[c] = "disconnected" /\ dataUser[c] = NoUser
                     /\ Falsy(hc[c].token) /\ hc[c].firebaseUid = ""
               /\ hc[c].pc \notin {"idle", "noToken"} =>
                     hc[c].token \in {PassengerToken, BadSignatureToken, DriverToken})
    /\ [][\A c \in Conns :
             /\ hc[c].pc = "noToken" => hc'[c] = hc[c] /\ dataUser'[c] = NoUser
             /\ (hc[c].pc = "idle" /\ hc'[c].pc = "noToken") =>
                   users' = users /\ client' = client]_vars

\* A connection that sent its token in the Authorization header only has
\* completed its handshake as the driver, and a connection without token
\* was closed.
C36_Witness ==
    \E c, d \in Conns :
        /\ hc[c].pc = "done" /\ hc[c].token = DriverToken
        /\ dataUser[c].firebaseUid = "uidD"
        /\ hc[d].pc = "noToken" /\ sock[d] = "disconnected"

\* C37, as stated: handleWsException always throws a WsException: the
\* caught one itself when it is a WsException, one with the same message
\* for an HttpException and for any error with a numeric status and a
\* message, and one with "Internal server error" for every other error.
C37_AlwaysWsException ==
    caught.pc = "thrown" =>
        LET error == caught.error
            thrown == caught.thrown
        IN  /\ thrown.class = "WsException"
            /\ IF error.class = "WsException"
               THEN thrown.same /\ thrown.message = error.message
               ELSE IF \/ error.class = "HttpException"
                       \/ error.statusType = "number" /\ error.message # ""
               THEN ~thrown.same /\ thrown.message = error.message
               ELSE ~thrown.same /\ thrown.message = "Internal server error"

\* C37, amended: as stated, where the errors that keep their message
\* without being an HttpException are those with a numeric status other
\* than 0 and a message that is not empty.
C37_AlwaysWsExceptionNonZeroStatus ==
    caught.pc = "thrown" =>
        LET error == caught.error
            thrown == caught.thrown
        IN  /\ thrown.class = "WsException"
            /\ IF error.class = "WsException"
               THEN thrown.same /\ thrown.message = error.message
               ELSE IF \/ error.class = "HttpException"
                       \/ /\ error.statusType = "number" /\ error.status # 0
                          /\ error.message # ""
               THEN ~thrown.same /\ thrown.message = error.message
               ELSE ~thrown.same /\ thrown.message = "Internal server error"

\* An error that is no HttpException, with status 404 and the message
\* "Not Found", has been converted into a WsException with that message.
C37_Witness ==
    /\ caught.pc = "thrown"
    /\ caught.error.class = "Error" /\ caught.error.status = 404
    /\ caught.error.message = "Not Found"
    /\ caught.thrown = WsException("Not Found", FALSE)

\* The UIDs listed in DRIVER_UIDS: the entries that, blanks at their ends
\* aside, are one UID.
Listed ==
    LET entries == split(IF env = Unset THEN <<>> ELSE env)
    IN  {uid \in {"uidD", "uidP"} :
            \E k \in 1..Len(entries) : trim(entries[k]) = <<uid>>}

\* C38: with DRIVER_UIDS unset or empty no subject resolves to driver;
\* the empty subject id never resolves to driver; and every UID listed in
\* DRIVER_UIDS, with or without blanks around it, resolves to driver.
C38_ListedUidsAreDrivers ==
    /\ env \in {Unset, <<>>} =>
          \A uid \in {"uidD", "uidP", ""} : "driver" \notin determineRoles(uid)
    /\ "driver" \notin determineRoles("")
    /\ \A uid \in Listed : determineRoles(uid) = {"driver"}
====
